---- MODULE Spec2Model ----
(***************************************************************************)
(* Signal lifecycle engine of the Hyperliquid signal system:               *)
(*   - the Price Monitor sweep over the signals table (database.ts),       *)
(*   - the Position Ingestor (workers/ingestion/src/index.ts, utils.ts),   *)
(*   - the Consensus Signal Detector (quoted in AUDIT_REPORT.md).          *)
(*                                                                         *)
(* Units.  Prices are integers in cents (2450.50 is 245050).  Percentages  *)
(* are integers in tenths of a percent (-2.5% is -25, 3.5% is 35).  A      *)
(* price level entryPrice * (1 + pct/100) is kept exactly as the integer   *)
(* entryPrice * (1000 + pct), i.e. in thousandths of a cent; a market      *)
(* price is brought to that unit (times 1000) before it is compared.       *)
(* Sequences are 1-based: rung i of the model is target_index i-1.         *)
(***************************************************************************)
EXTENDS Integers, Sequences, FiniteSets, Bags, TLC

VARIABLES
    signals,          \* table signals: signal_id -> row
    signal_targets,   \* table signal_targets: signal_id -> <<is_hit of each rung>>
    marketPrice,      \* per pair: the price the last sweep got (NoPrice: none), or,
                      \* for a pair it did not fetch, the market's price at that time
    sweeps,           \* number of sweeps run so far
    wallet_positions, \* table wallet_positions: a set of rows
    ingested_events,  \* table ingested_events: a set of [event_id, created_at]
    signalQueue,      \* SIGNAL_QUEUE: the position-open events published, in order
    pendingEvents,    \* the detector's input queue: the events not yet consumed
    validPositions,   \* the positions the detector's collapse loop iterates over
    walletPositions,  \* the entry the loop keeps for each wallet (the Map's values)
    clearinghouse,    \* provider: wallet -> its assetPositions snapshot
    userFills,        \* provider: wallet -> its recent fills
    now,              \* Date.now(), in milliseconds
    polls,            \* number of ingestion cycles run so far
    signal_wallets,   \* table signal_wallets: signal_id -> the participant rows
    performance,      \* table performance: signal_id -> timeframe -> [outcome, pnl]
    notificationQueue,\* NOTIFICATION_QUEUE: the bag of messages sent by the monitor
    priceQueries,     \* per pair: the provider calls of the last sweep and their results
    calculatorCalls,  \* signal_id -> number of updatePerformanceMetrics invocations
    sendFailed,       \* the signals whose NOTIFICATION_QUEUE.send failed in the last sweep
    ingestFault,      \* the call that failed in the last ingestion cycle, or "none"
    trade,            \* the arguments of one performance calculation
    metrics,          \* its result: [pnl, outcome], or <<>> before it ran
    batch,            \* the notifier's MessageBatch: the bodies and the I/O they will meet
    acked,            \* per message of the batch: number of ack() calls
    retried,          \* per message of the batch: number of retry() calls
    sent,             \* per message of the batch: Telegram accepted its notification
    consumers,        \* the detector's concurrent queue consumers: position and locals
    sweepers,         \* the monitor's overlapping sweeps: position and locals
    upstream,         \* the responses the provider gives to successive attempts of a call
    call,             \* the finished call: [attempts, result, delays, last], or <<>> before it ran
    jitter,           \* Math.random() * 1000 of each retry of the call, rounded down
    config,           \* what getConfig returns: the rows of table config, with defaults
    trades,           \* number of times a wallet has changed its exposure so far
    configRows,       \* table config: key -> the value column, a text
    requests,         \* RateLimiter.requests: each timestamp as its age, now - time
    waiters,          \* the callers of waitForSlot: position, and time left to sleep
    grantAges,        \* the age of every slot granted less than windowMs ago
    breaker,          \* the circuit breaker's closure: [state, failures, lastFailureTime]
    executions,       \* the callers of execute: position, and Date.now() at their entry
    failedAt,         \* the time at which an operation last rejected (0: none has)
    storeFailed,      \* per signal checked by the last sweep: the store call that failed, or "none"
    ingestFaultAt     \* where ingestFault struck: <<wallet, position>> (0: the wallet's fetch), or Everywhere

monitorVars == <<signals, signal_targets, marketPrice, sweeps>>

ingestVars == <<wallet_positions, ingested_events, signalQueue, clearinghouse,
                userFills, now, polls>>

monitorOut == <<performance, notificationQueue, priceQueries, calculatorCalls, sendFailed>>

perfVars == <<trade, metrics>>

notifierVars == <<batch, acked, retried, sent>>

raceVars == <<consumers, sweepers>>

retryVars == <<upstream, call, jitter>>

configVars == <<config, trades, configRows>>

limiterVars == <<requests, waiters, grantAges>>

breakerVars == <<breaker, executions, failedAt>>

faultVars == <<storeFailed, ingestFaultAt>>

vars == <<signals, signal_targets, marketPrice, sweeps, wallet_positions,
          ingested_events, signalQueue, clearinghouse, userFills, now, polls,
          signal_wallets, pendingEvents, validPositions, walletPositions,
          monitorOut, ingestFault, perfVars, notifierVars, raceVars, faultVars, breakerVars, limiterVars, configVars, retryVars>>

\* The configuration getConfig returns: the rows migration 0002 inserts.
Config ==
    [min_trade_size        |-> 0,
     ignored_pairs         |-> {},
     required_leverage_min |-> 1,
     monitored_pairs       |-> {"ETH", "BTC", "SOL"}]

\* The configuration holds the rows of the migration, and no wallet has traded.
ConfigDefault == config = Config /\ trades = 0 /\ configRows = << >>

\* The parts of the state a subsystem does not use, in their initial values.
MonitorOutIdle ==
    /\ performance = << >>
    /\ notificationQueue = EmptyBag
    /\ priceQueries = << >>
    /\ calculatorCalls = << >>
    /\ sendFailed = {}

PerformanceIdle == trade = << >> /\ metrics = << >>

NotifierIdle ==
    /\ batch = << >>
    /\ acked = << >>
    /\ retried = << >>
    /\ sent = << >>

RaceIdle == consumers = << >> /\ sweepers = << >>

LimiterIdle == requests = << >> /\ waiters = << >> /\ grantAges = << >>

BreakerIdle == breaker = << >> /\ executions = << >> /\ failedAt = 0

RetryIdle == upstream = << >> /\ call = << >> /\ jitter = << >>

\* A fault that strikes every wallet and every position of a cycle.
Everywhere == <<0, 0>>

FaultIdle == storeFailed = << >> /\ ingestFaultAt = Everywhere

collapseVars == <<validPositions, walletPositions>>

Abs(x) == IF x < 0 THEN 0 - x ELSE x

\* Every order in which the rows of a set can be listed.
RECURSIVE Orderings(_)
Orderings(S) ==
    IF S = {} THEN {<< >>}
    ELSE UNION {{<<x>> \o rest : rest \in Orderings(S \ {x})} : x \in S}

(***************************************************************************)
(* Performance calculation (shared/performance.ts), on its own.            *)
(*                                                                         *)
(* Units.  Prices are in whole dollars here, sizes in contracts, a funding  *)
(* rate in hundredths of a percent (0.0001 is 1), a duration in whole      *)
(* hours.  A PnL is kept exactly as an integer number of 1/RateScale       *)
(* dollars, so that rate * size * price * (hours / 8) needs no division.   *)
(***************************************************************************)

RateScale == 10000 * 8

\* The closes the calculation is applied to.
EntryPrices == {42100, 42000}
ExitPrices == {41000, 42100, 43000}
PositionSizes == {1, 3}
FundingRates == {0 - 1, 0, 1}
DurationsHours == {0, 4, 8, 12}
CloseStatuses == {"SL_HIT", "TP_HIT", "PARTIAL_TP", "CLOSED"}

calculatePnLUnsigned(entryPrice, exitPrice, positionSize, signalType, fundingRate, durationHours) ==
    LET priceDiff   == exitPrice - entryPrice
        tradePnL    == priceDiff * positionSize
        fundingCost == fundingRate * positionSize * entryPrice * durationHours
    IN  tradePnL * RateScale - fundingCost

calculatePnL(entryPrice, exitPrice, positionSize, signalType, fundingRate, durationHours) ==
    LET directionMultiplier == IF signalType = "LONG" THEN 1 ELSE 0 - 1
        priceDiff   == exitPrice - entryPrice
        tradePnL    == directionMultiplier * priceDiff * positionSize
        fundingCost == fundingRate * positionSize * entryPrice * durationHours
    IN  tradePnL * RateScale - fundingCost

determineOutcomeBySign(status, pnl) ==
    IF pnl > 0 THEN "WIN" ELSE "LOSS"

determineOutcome(status, pnl) ==
    IF status = "TP_HIT" THEN "WIN"
    ELSE IF status = "SL_HIT" THEN "LOSS"
    ELSE IF status = "PARTIAL_TP" THEN "PARTIAL"
    ELSE IF pnl > 0 THEN "WIN" ELSE "LOSS"

PerformanceInit ==
    /\ trade \in [entryPrice    : EntryPrices,
                  exitPrice     : ExitPrices,
                  positionSize  : PositionSizes,
                  signalType    : {"LONG", "SHORT"},
                  fundingRate   : FundingRates,
                  durationHours : DurationsHours,
                  status        : CloseStatuses]
    /\ metrics = << >>
    /\ signals = << >>
    /\ signal_targets = << >>
    /\ signal_wallets = << >>
    /\ marketPrice = << >>
    /\ sweeps = 0
    /\ wallet_positions = {}
    /\ ingested_events = {}
    /\ signalQueue = << >>
    /\ pendingEvents = {}
    /\ validPositions = << >>
    /\ walletPositions = {}
    /\ clearinghouse = << >>
    /\ userFills = << >>
    /\ now = 0
    /\ polls = 0
    /\ MonitorOutIdle
    /\ ingestFault = "none"
    /\ FaultIdle
    /\ BreakerIdle
    /\ LimiterIdle
    /\ ConfigDefault
    /\ RetryIdle
    /\ NotifierIdle
    /\ RaceIdle

\* The PnL of the close is calculated and the close is classified with it.
calculateMetrics ==
    /\ trade # << >>
    /\ metrics = << >>
    /\ LET pnl == calculatePnL(trade.entryPrice, trade.exitPrice, trade.positionSize,
                               trade.signalType, trade.fundingRate, trade.durationHours)
       IN  metrics' = [pnl |-> pnl, outcome |-> determineOutcome(trade.status, pnl)]
    /\ UNCHANGED <<signals, signal_targets, marketPrice, sweeps, wallet_positions,
                   ingested_events, signalQueue, clearinghouse, userFills, now, polls,
                   signal_wallets, pendingEvents, validPositions, walletPositions,
                   monitorOut, ingestFault, trade, notifierVars, raceVars, faultVars, breakerVars, limiterVars, configVars, retryVars>>

PerformanceNext == calculateMetrics

SpecPerformance == PerformanceInit /\ [][PerformanceNext]_vars

(***************************************************************************)
(* Price Monitor                                                           *)
(***************************************************************************)

\* Number of sweeps explored.
MaxSweeps == 2

\* No provider returned a price for the pair (getCurrentPrice gives null);
\* a value no price takes.
NoPrice == 0 - 1

\* The signals table the sweeps run over: the defaults of the config table
\* (stop -2.5%, ladder 2.0/3.5/5.0) and variations allowed by the schema.
SignalRows ==
    << [pair |-> "ETH", type |-> "LONG",  entry_price |-> 245050,
        stop_loss |-> -25, targets |-> <<20, 35, 50>>, avg_trade_size |-> 1],
       [pair |-> "SOL", type |-> "LONG",  entry_price |-> 10000,
        stop_loss |-> -30, targets |-> <<20, 35, 50>>, avg_trade_size |-> 2],
       [pair |-> "SOL", type |-> "SHORT", entry_price |-> 10000,
        stop_loss |-> -25, targets |-> <<20, 35, 50>>, avg_trade_size |-> 2],
       [pair |-> "ETH", type |-> "SHORT", entry_price |-> 245050,
        stop_loss |-> -25, targets |-> <<20>>, avg_trade_size |-> 1] >>

SignalIds == DOMAIN SignalRows

MonitoredPairs == {"ETH", "SOL"}

\* Market prices a provider may report for a pair, in cents.
PricesOf(pair) ==
    IF pair = "ETH"
    THEN {238800, 240000, 245050, 250000}
    ELSE {9500, 9700, 9750, 9800, 10000, 10100, 10300, 10600}

\* A provider's call threw after its retries (withRetry rethrows the error);
\* a value no price takes.
ProviderFailed == 0 - 2

\* The prices the secondary provider may report for a pair, in cents.
SecondaryPricesOf(pair) == IF pair = "ETH" THEN {240000} ELSE {10300}

\* What the two providers may answer for a pair, as <<primary, secondary>>:
\* each a price, null, or an error.  The secondary's answer is listed only
\* with a primary that answers null: with any other it cannot be observed.
ProviderResults(pair) ==
    {<<h, NoPrice>> : h \in PricesOf(pair) \cup {ProviderFailed}}
    \cup {<<NoPrice, k>> : k \in SecondaryPricesOf(pair) \cup {NoPrice, ProviderFailed}}

\* A price lookup that falls back on the secondary provider's last cached
\* price when neither provider answers.
getCurrentPriceCached(pair, hlPrice, kcPrice) ==
    LET hl == [provider |-> "hyperliquid", result |-> hlPrice]
        kc == [provider |-> "kucoin", result |-> kcPrice]
    IN  IF hlPrice \notin {NoPrice, ProviderFailed}
        THEN [price |-> hlPrice, queries |-> << hl >>]
        ELSE [price |-> CHOOSE k \in SecondaryPricesOf(pair) : TRUE,
              queries |-> IF hlPrice = ProviderFailed THEN << hl >> ELSE << hl, kc >>]

\* getCurrentPrice on a pair whose providers answer hlPrice and kcPrice: the
\* price returned (NoPrice for null) and the calls made.  Both calls are
\* inside one try block whose catch returns null.
getCurrentPrice(pair, hlPrice, kcPrice) ==
    LET hl == [provider |-> "hyperliquid", result |-> hlPrice]
        kc == [provider |-> "kucoin", result |-> kcPrice]
    IN  IF hlPrice = ProviderFailed THEN [price |-> NoPrice, queries |-> << hl >>]
        ELSE IF hlPrice # NoPrice THEN [price |-> hlPrice, queries |-> << hl >>]
        ELSE IF kcPrice = ProviderFailed THEN [price |-> NoPrice, queries |-> << hl, kc >>]
        ELSE IF kcPrice # NoPrice THEN [price |-> kcPrice, queries |-> << hl, kc >>]
        ELSE [price |-> NoPrice, queries |-> << hl, kc >>]

\* A market price in the unit of the price levels.
Level(price) == price * 1000

calculatePriceLevels(entryPrice, stopLossPercent, targets, signalType) ==
    IF signalType = "LONG"
    THEN [stopLossPrice |-> entryPrice * (1000 + stopLossPercent),
          targetPrices  |-> [i \in DOMAIN targets |-> entryPrice * (1000 + targets[i])]]
    ELSE [stopLossPrice |-> entryPrice * (1000 - Abs(stopLossPercent)),
          targetPrices  |-> [i \in DOMAIN targets |-> entryPrice * (1000 - targets[i])]]

isStopLossHitInverted(currentPrice, stopLossPrice, signalType) ==
    IF signalType = "LONG"
    THEN currentPrice >= stopLossPrice
    ELSE currentPrice <= stopLossPrice

isStopLossHit(currentPrice, stopLossPrice, signalType) ==
    IF signalType = "LONG"
    THEN currentPrice <= stopLossPrice
    ELSE currentPrice >= stopLossPrice

\* The rungs newly reached by currentPrice: not yet hit in signal_targets.
checkTakeProfitHits(signalId, currentPrice, targetPrices, signalType) ==
    {i \in DOMAIN targetPrices :
        /\ ~signal_targets[signalId][i]
        /\ IF signalType = "LONG"
           THEN currentPrice >= targetPrices[i]
           ELSE currentPrice <= targetPrices[i]}

\* A target update that writes every rung of the signal: hit for the rungs
\* of tpHits, not hit for the others.
updateSignalTargetAll(hits, tpHits) ==
    [i \in DOMAIN hits |-> i \in tpHits]

\* updateSignalTarget(signalId, i, true) for each i of tpHits.
updateSignalTarget(hits, tpHits) ==
    [i \in DOMAIN hits |-> IF i \in tpHits THEN TRUE ELSE hits[i]]

\* hitCount >= totalTargets from a count of the marked rungs; when the
\* count query throws, the catch returns false.
checkAllTargetsHit(hits, totalTargets, failing) ==
    IF failing = "checkAllTargetsHit" THEN FALSE
    ELSE Cardinality({i \in DOMAIN hits : hits[i]}) >= totalTargets

\* The timeframe buckets a performance record is stored for.
timeframes == {"24h", "7d", "30d", "all_time"}

\* The performance rows one invocation of updatePerformanceMetrics writes
\* for a close at exitPrice, one per timeframe (INSERT OR REPLACE on the
\* key signal_id, timeframe): the funding rate passed is the placeholder 0.
\* When the insert throws (failing), the catch of updatePerformanceMetrics
\* logs and returns: the invocation leaves no row.
updatePerformanceMetrics(signalId, exitPrice, status, failing) ==
    LET s   == signals[signalId]
        pnl == calculatePnL(s.entry_price, exitPrice, s.avg_trade_size, s.type, 0, 0)
    IN  IF failing = "updatePerformanceMetrics" THEN << >>
        ELSE [timeframe \in timeframes |-> [outcome |-> determineOutcome(status, pnl), pnl |-> pnl]]

\* What handleStopLossHit leaves: status SL_HIT, targets untouched, its
\* invocations of updatePerformanceMetrics (the rows of each), and the
\* notifications it sends, in order (type and signal of each).
\* Its calls run inside one try whose catch only logs: when
\* updateSignalStatus throws (failing), nothing after it runs.
handleStopLossHit(signalId, currentPrice, failing) ==
    IF failing = "updateSignalStatus"
    THEN [status |-> signals[signalId].status,
          hits   |-> signal_targets[signalId],
          perf   |-> << >>,
          notes  |-> << >>]
    ELSE [status |-> "SL_HIT",
          hits   |-> signal_targets[signalId],
          perf   |-> << updatePerformanceMetrics(signalId, currentPrice, "SL_HIT", failing) >>,
          notes  |-> << [type |-> "SL_HIT", signal_id |-> signalId] >>]

\* A take-profit handler that records performance for a partial hit too.
handleTakeProfitHitsAlwaysRecorded(signalId, tpHits, targets, currentPrice, failing) ==
    LET hits          == updateSignalTarget(signal_targets[signalId], tpHits)
        allTargetsHit == checkAllTargetsHit(hits, Len(targets), failing)
        newStatus     == IF allTargetsHit THEN "TP_HIT" ELSE "PARTIAL_TP"
    IN  [status |-> newStatus,
         hits   |-> hits,
         perf   |-> << updatePerformanceMetrics(signalId, currentPrice, newStatus, failing) >>,
         notes  |-> << [type |-> newStatus, signal_id |-> signalId] >>]

\* A take-profit handler that sends one notification per rung hit.
handleTakeProfitHitsPerRung(signalId, tpHits, targets, currentPrice, failing) ==
    LET hits          == updateSignalTarget(signal_targets[signalId], tpHits)
        allTargetsHit == checkAllTargetsHit(hits, Len(targets), failing)
        newStatus     == IF allTargetsHit THEN "TP_HIT" ELSE "PARTIAL_TP"
    IN  [status |-> newStatus,
         hits   |-> hits,
         perf   |-> IF allTargetsHit
                    THEN << updatePerformanceMetrics(signalId, currentPrice, "TP_HIT", failing) >>
                    ELSE << >>,
         notes  |-> [k \in 1..Cardinality(tpHits) |-> [type |-> newStatus, signal_id |-> signalId]]]

\* What handleTakeProfitHits leaves: the rungs of tpHits marked, then the
\* status from the count of marked rungs, one invocation of
\* updatePerformanceMetrics when all are marked, and the one notification
\* it sends for all the rungs of tpHits.  Its calls run inside one try
\* whose catch only logs: when updateSignalTarget throws (failing, at the
\* first rung) nothing is written, and when updateSignalStatus throws the
\* rungs stay marked and nothing after it runs.
handleTakeProfitHits(signalId, tpHits, targets, currentPrice, failing) ==
    LET hits          == updateSignalTarget(signal_targets[signalId], tpHits)
        allTargetsHit == checkAllTargetsHit(hits, Len(targets), failing)
        newStatus     == IF allTargetsHit THEN "TP_HIT" ELSE "PARTIAL_TP"
    IN  IF failing = "updateSignalTarget"
        THEN [status |-> signals[signalId].status,
              hits   |-> signal_targets[signalId],
              perf   |-> << >>,
              notes  |-> << >>]
        ELSE IF failing = "updateSignalStatus"
        THEN [status |-> signals[signalId].status,
              hits   |-> hits,
              perf   |-> << >>,
              notes  |-> << >>]
        ELSE [status |-> newStatus,
              hits   |-> hits,
              perf   |-> IF allTargetsHit
                         THEN << updatePerformanceMetrics(signalId, currentPrice, "TP_HIT", failing) >>
                         ELSE << >>,
              notes  |-> << [type |-> newStatus, signal_id |-> signalId] >>]

\* The status and hit flags of one signal after its price check, the
\* performance row written (or none) and the notifications sent.
processSignalPriceCheck(signalId, currentPrice, failing) ==
    LET s      == signals[signalId]
        levels == calculatePriceLevels(s.entry_price, s.stop_loss, s.targets, s.type)
        tpHits == checkTakeProfitHits(signalId, Level(currentPrice), levels.targetPrices, s.type)
    IN  IF isStopLossHit(Level(currentPrice), levels.stopLossPrice, s.type)
        THEN handleStopLossHit(signalId, currentPrice, failing)
        ELSE IF tpHits # {}
             THEN handleTakeProfitHits(signalId, tpHits, s.targets, currentPrice, failing)
             ELSE [status |-> s.status, hits |-> signal_targets[signalId],
                   perf |-> << >>, notes |-> << >>]

getActiveSignalsAnyStatus == DOMAIN signals

\* SELECT ... FROM signals WHERE status = 'OPEN'
getActiveSignals == {id \in DOMAIN signals : signals[id].status = "OPEN"}

MonitorInit ==
    /\ signals = [id \in SignalIds |->
                    [pair        |-> SignalRows[id].pair,
                     type        |-> SignalRows[id].type,
                     entry_price |-> SignalRows[id].entry_price,
                     stop_loss   |-> SignalRows[id].stop_loss,
                     targets     |-> SignalRows[id].targets,
                     avg_trade_size |-> SignalRows[id].avg_trade_size,
                     status      |-> "OPEN",
                     created_at  |-> 0]]
    /\ signal_targets = [id \in SignalIds |-> [i \in DOMAIN SignalRows[id].targets |-> FALSE]]
    /\ marketPrice = [p \in MonitoredPairs |-> NoPrice]
    /\ sweeps = 0
    /\ wallet_positions = {}
    /\ ingested_events = {}
    /\ signalQueue = <<>>
    /\ clearinghouse = <<>>
    /\ userFills = <<>>
    /\ now = 0
    /\ polls = 0
    /\ signal_wallets = << >>
    /\ pendingEvents = {}
    /\ validPositions = << >>
    /\ walletPositions = {}
    /\ MonitorOutIdle
    /\ ingestFault = "none"
    /\ FaultIdle
    /\ BreakerIdle
    /\ LimiterIdle
    /\ ConfigDefault
    /\ RetryIdle
    /\ PerformanceIdle
    /\ NotifierIdle
    /\ RaceIdle

\* The calls on the database made by the handler that left result, any of
\* which may throw: none when no handler ran.
StoreCalls(result) ==
    IF result.notes = << >> THEN {}
    ELSE IF result.status = "SL_HIT"
    THEN {"updateSignalStatus", "updatePerformanceMetrics"}
    ELSE {"updateSignalTarget", "checkAllTargetsHit", "updateSignalStatus"}
         \cup (IF result.status = "TP_HIT" THEN {"updatePerformanceMetrics"} ELSE {})

\* The ways the database may fail during a sweep over touched: not at all,
\* or in one call, among those of failable, of the handler of one signal.
StoreFailures(touched, price, failable) ==
    {[id \in touched |-> "none"]}
    \cup UNION {{[id \in touched |-> IF id = f THEN c ELSE "none"] :
                    c \in failable
                         \cap StoreCalls(processSignalPriceCheck(f, price[signals[f].pair], "none"))} :
                f \in touched}

\* Every call on the database a handler may make.
AllStoreCalls == {"updateSignalTarget", "checkAllTargetsHit", "updateSignalStatus",
                  "updatePerformanceMetrics"}

\* The pairs of the active signals (the keys of groupSignalsByPair).
groupSignalsByPair(active) == {signals[id].pair : id \in active}

\* What the providers hold for a pair during a sweep: any of their results
\* for a pair that is swept; for a pair that is not, nobody asks, and only
\* the market's price is told apart.
AnswersFor(pair, swept) ==
    IF pair \in swept THEN ProviderResults(pair)
    ELSE {<<h, NoPrice>> : h \in PricesOf(pair)}

\* NOTIFICATION_QUEUE after the messages of notes were sent to it in order.
RECURSIVE sendEach(_, _)
sendEach(queue, notes) ==
    IF notes = << >> THEN queue
    ELSE sendEach(queue (+) SetToBag({Head(notes)}), Tail(notes))

\* NOTIFICATION_QUEUE after the sends of the handlers run for the signals ids.
RECURSIVE sendAll(_, _, _)
sendAll(queue, ids, checked) ==
    IF ids = {} THEN queue
    ELSE LET id == CHOOSE x \in ids : TRUE
         IN  sendAll(sendEach(queue, checked[id].notes), ids \ {id}, checked)

\* The number of updatePerformanceMetrics invocations recorded for a signal.
CallsOf(calls, id) == IF id \in DOMAIN calls THEN calls[id] ELSE 0

\* A write of the handlers' results in which a failed send undoes the
\* status and target writes of its handler.
writeCheckedRollback(touched, checked, rejected) ==
    LET written == {id \in touched : checked[id].notes # << >>} \ rejected
        closed  == {id \in touched : checked[id].perf # << >>} \ rejected
    IN  /\ signals' = [id \in DOMAIN signals |->
                         IF id \in written
                         THEN [signals[id] EXCEPT !.status = checked[id].status]
                         ELSE signals[id]]
        /\ signal_targets' = [id \in DOMAIN signals |->
                         IF id \in written THEN checked[id].hits ELSE signal_targets[id]]
        /\ performance' = [id \in DOMAIN performance \cup closed |->
                             IF id \in closed
                             THEN checked[id].perf[Len(checked[id].perf)]
                             ELSE performance[id]]
        /\ calculatorCalls' = [id \in DOMAIN calculatorCalls \cup closed |->
                             CallsOf(calculatorCalls, id)
                             + (IF id \in closed THEN Len(checked[id].perf) ELSE 0)]
        /\ notificationQueue' = sendAll(notificationQueue, touched \ rejected, checked)
        /\ sendFailed' = rejected

\* The store and the queue after the handlers' results checked were written
\* for the signals touched: a signal whose check ran no handler is not
\* written.  A handler writes status, targets and
\* performance before it sends, inside a try whose catch only logs: for the
\* signals of rejected, whose send fails, nothing but the message is missing.
\* A handler stopped by a failing status write has sent nothing, but has
\* marked its rungs; an invocation of updatePerformanceMetrics whose insert
\* failed is counted and leaves no row.
writeChecked(touched, checked, rejected) ==
    LET written  == {id \in touched : \/ checked[id].notes # << >>
                                      \/ checked[id].hits # signal_targets[id]}
        closed   == {id \in touched : checked[id].perf # << >>}
        recorded == {id \in closed : checked[id].perf[Len(checked[id].perf)] # << >>}
    IN  /\ signals' = [id \in DOMAIN signals |->
                         IF id \in written
                         THEN [signals[id] EXCEPT !.status = checked[id].status]
                         ELSE signals[id]]
        /\ signal_targets' = [id \in DOMAIN signals |->
                         IF id \in written THEN checked[id].hits ELSE signal_targets[id]]
        /\ performance' = [id \in DOMAIN performance \cup recorded |->
                             IF id \in recorded
                             THEN checked[id].perf[Len(checked[id].perf)]
                             ELSE performance[id]]
        /\ calculatorCalls' = [id \in DOMAIN calculatorCalls \cup closed |->
                             CallsOf(calculatorCalls, id)
                             + (IF id \in closed THEN Len(checked[id].perf) ELSE 0)]
        /\ notificationQueue' = sendAll(notificationQueue, touched \ rejected, checked)
        /\ sendFailed' = rejected

\* One scheduled run of monitorActivePrices: the active signals are read and
\* grouped by pair; for each pair that has active signals a price is fetched
\* (eth and sol are what the two providers answer for the pair when asked),
\* and every active signal of a pair with a price is checked against it; a
\* pair without a price is skipped, a pair without active signals is not
\* fetched.  limit bounds the number of runs; queueUp tells whether
\* NOTIFICATION_QUEUE accepts every message of this run, or may reject the
\* send of any handler; failable holds the calls on the database of which
\* one may throw (StoreFailures).
runSweep(limit, queueUp, failable) ==
    /\ sweeps < limit
    /\ \E eth \in AnswersFor("ETH", groupSignalsByPair(getActiveSignals)),
          sol \in AnswersFor("SOL", groupSignalsByPair(getActiveSignals)) :
        /\ LET active  == getActiveSignals
               swept   == groupSignalsByPair(active)
               answers == [p \in MonitoredPairs |-> IF p = "ETH" THEN eth ELSE sol]
               fetched == [p \in swept |-> getCurrentPrice(p, answers[p][1], answers[p][2])]
               price   == [p \in MonitoredPairs |->
                              IF p \in swept THEN fetched[p].price ELSE answers[p][1]]
               touched == {id \in active : price[signals[id].pair] # NoPrice}
           IN  /\ priceQueries' = [p \in MonitoredPairs |->
                                IF p \in swept THEN fetched[p].queries ELSE << >>]
               /\ marketPrice' = price
               /\ \E failing \in StoreFailures(touched, price, failable) :
                    /\ storeFailed' = failing
                    /\ LET checked == [id \in touched |->
                                     processSignalPriceCheck(id, price[signals[id].pair], failing[id])]
                           sending == {id \in touched : checked[id].notes # << >>}
                       IN  \E rejected \in (IF queueUp THEN {{}} ELSE SUBSET sending) :
                               writeChecked(touched, checked, rejected)
    /\ sweeps' = sweeps + 1
    /\ UNCHANGED ingestVars
    /\ UNCHANGED <<signal_wallets, pendingEvents, collapseVars>>
    /\ UNCHANGED <<ingestFault, ingestFaultAt, perfVars, breakerVars, limiterVars, configVars, retryVars, notifierVars, raceVars>>

\* A scheduled run with NOTIFICATION_QUEUE available.
monitorActivePrices == runSweep(MaxSweeps, TRUE, {})

MonitorNext == monitorActivePrices

Spec == MonitorInit /\ [][MonitorNext]_vars

\* Number of sweeps explored with a failing notification queue.
MaxFaultSweeps == 1

\* A scheduled run during which NOTIFICATION_QUEUE.send may fail.
monitorActivePricesSendFailing == runSweep(MaxFaultSweeps, FALSE, {})

SendFaultNext == monitorActivePricesSendFailing

SpecSendFault == MonitorInit /\ [][SendFaultNext]_vars

\* Number of sweeps explored with a failing database.
MaxStoreFaultSweeps == 1

\* A scheduled run during which calls on the database may throw.
monitorActivePricesStoreFailing == runSweep(MaxStoreFaultSweeps, TRUE, AllStoreCalls)

StoreFaultNext == monitorActivePricesStoreFailing

SpecStoreFault == MonitorInit /\ [][StoreFaultNext]_vars

\* Number of sweeps explored with failing writes of performance records.
MaxLaterSweeps == 2

\* A scheduled run of a series during which the insert of
\* updatePerformanceMetrics may throw.
monitorActivePricesLater == runSweep(MaxLaterSweeps, TRUE, {"updatePerformanceMetrics"})

LaterNext == monitorActivePricesLater

\* The cron trigger keeps firing: a sweep that can run does run.
SpecLater == MonitorInit /\ [][LaterNext]_vars /\ WF_vars(monitorActivePricesLater)

(***************************************************************************)
(* Position Ingestor                                                       *)
(***************************************************************************)

\* Number of ingestion cycles explored.
MaxPolls == 3

\* The clock is not advanced past this value (milliseconds).
MaxClock == 1300000000

\* Date.now() of the first state, after the fills below.
StartTime == 2 * 60000

\* The active wallets, in the order getActiveWallets returns them.
ActiveWallets ==
    << "0xecb63caa47c7c4e77f60f1ce858cf28dc2b82b00",
       "0x00c511ab1b583f4efab3608d0897d377c4de47a6" >>

\* The characters of each wallet address.
AddressChars ==
    [w \in {ActiveWallets[1], ActiveWallets[2]} |->
        IF w = ActiveWallets[1]
        THEN << "0","x","e","c","b","6","3","c","a","a","4","7","c","7",
                "c","4","e","7","7","f","6","0","f","1","c","e","8","5",
                "8","c","f","2","8","d","c","2","b","8","2","b","0","0" >>
        ELSE << "0","x","0","0","c","5","1","1","a","b","1","b","5","8",
                "3","f","4","e","f","a","b","3","6","0","8","d","0","8",
                "9","7","d","3","7","7","c","4","d","e","4","7","a","6" >>]

\* The characters of the pair symbols and of the directions.
SymbolChars ==
    [x \in {"ETH", "BTC", "SOL", "DOGE", "LONG", "SHORT"} |->
        CASE x = "ETH"   -> << "E","T","H" >>
          [] x = "BTC"   -> << "B","T","C" >>
          [] x = "SOL"   -> << "S","O","L" >>
          [] x = "DOGE"  -> << "D","O","G","E" >>
          [] x = "LONG"  -> << "L","O","N","G" >>
          [] x = "SHORT" -> << "S","H","O","R","T" >>]

DigitChars == << "0","1","2","3","4","5","6","7","8","9" >>

\* The decimal digits of a natural number, as a template literal prints it.
RECURSIVE Decimal(_)
Decimal(n) ==
    IF n < 10 THEN << DigitChars[n + 1] >>
    ELSE Append(Decimal(n \div 10), DigitChars[(n % 10) + 1])

\* btoa: every group of three characters becomes four output characters, and
\* a last group of one or two characters is filled with '='.  Output
\* character k of a group is written [bytes, k]: the four characters of a
\* full group determine its three bytes and conversely.
btoa(data) ==
    LET n == Len(data)
        groups == (n + 2) \div 3
        bytesOf(g) == SubSeq(data, 3 * g - 2, IF 3 * g <= n THEN 3 * g ELSE n)
    IN  [j \in 1..(4 * groups) |->
            LET g == ((j - 1) \div 4) + 1
                k == (j - 1) % 4
            IN  IF k <= Len(bytesOf(g))
                THEN [pad |-> FALSE, bytes |-> bytesOf(g), k |-> k]
                ELSE [pad |-> TRUE,  bytes |-> <<>>,        k |-> k]]

\* replace(/[^a-zA-Z0-9]/g, ''): the '=' filling goes; '+' and '/' do not
\* occur in the encoding of letters, digits and '-'.
StripNonAlnum(enc) == SelectSeq(enc, LAMBDA c : ~c.pad)

Substring(str, from, to) ==
    SubSeq(str, from + 1, IF to <= Len(str) THEN to ELSE Len(str))

generateEventIdUntruncated(walletAddress, pair, timestamp, direction) ==
    LET data == AddressChars[walletAddress] \o << "-" >> \o SymbolChars[pair]
                \o << "-" >> \o SymbolChars[direction]
                \o << "-" >> \o Decimal(timestamp \div 60000)
    IN  StripNonAlnum(btoa(data))

generateEventId(walletAddress, pair, timestamp, direction) ==
    LET data == AddressChars[walletAddress] \o << "-" >> \o SymbolChars[pair]
                \o << "-" >> \o SymbolChars[direction]
                \o << "-" >> \o Decimal(timestamp \div 60000)
    IN  Substring(StripNonAlnum(btoa(data)), 0, 32)

\* The value of a payload field that is absent, and of one that is present
\* but spells no number; every other value is the number the string spells.
Missing == 0 - 999999998
NonNumeric == 0 - 999999997

\* The number that is not a number.
NaN == 0 - 999999999

\* value || fallback, for a string value: the fallback replaces an absent one.
OrElse(value, fallback) == IF value = Missing THEN fallback ELSE value

parseFloat(str) == IF str = NonNumeric THEN NaN ELSE str

parseInt(str) == IF str = NonNumeric THEN NaN ELSE str

\* a < b and a > b on numbers: false when either side is NaN.
LessThan(a, b) == a # NaN /\ b # NaN /\ a < b

MathAbs(x) == IF x = NaN THEN NaN ELSE IF x < 0 THEN 0 - x ELSE x

calculateNotionalValue(price, size) ==
    IF price = NaN \/ size = NaN THEN NaN ELSE price * size

\* A configured amount of dollars, in the unit of a notional value (cents
\* times tenths of a contract).
Dollars(n) == n * 1000

\* Snapshots a wallet's clearinghouse state may show.  szi is in tenths of a
\* contract (10.5 is 105), negative for a short; entryPx is in cents.
Snapshots ==
    { << [coin |-> "ETH", szi |-> 105, entryPx |-> 245050, leverage |-> 5] >>,
      << [coin |-> "ETH", szi |-> 82,  entryPx |-> 245120, leverage |-> 3],
         [coin |-> "BTC", szi |-> -10, entryPx |-> 4210000, leverage |-> 10] >>,
      << [coin |-> "SOL",  szi |-> 0,   entryPx |-> 10000, leverage |-> 2],
         [coin |-> "DOGE", szi |-> 500, entryPx |-> 12,    leverage |-> 2] >> }

\* Fill histories a wallet may show: none, or older and newer fills of both
\* sides, all before StartTime.
FillHistories ==
    { << >>,
      << [coin |-> "ETH", side |-> "B", time |-> 30000,  px |-> 244000],
         [coin |-> "ETH", side |-> "B", time |-> 90000,  px |-> 245000],
         [coin |-> "ETH", side |-> "A", time |-> 100000, px |-> 246000],
         [coin |-> "BTC", side |-> "A", time |-> 90000,  px |-> 4209000] >> }

\* Time between two ingestion cycles: the poll interval, or a little more
\* than the retention of cleanupOldEvents.
PollGaps == {60000, 7 * 24 * 60 * 60 * 1000 + 60000}

\* The first matching fill in the order of the list, without the sort.
findRelevantFillFirst(fills, pair, positionType) ==
    LET recentFills == SelectSeq(fills, LAMBDA fill :
                           /\ fill.coin = pair
                           /\ (IF fill.side = "B" THEN "LONG" ELSE "SHORT") = positionType)
    IN  IF Len(recentFills) > 0 THEN << recentFills[1] >> ELSE << >>

\* The matching fills, most recent first (a stable sort); <<>> stands for null.
findRelevantFill(fills, pair, positionType) ==
    LET recentFills == SelectSeq(fills, LAMBDA fill :
                           /\ fill.coin = pair
                           /\ (IF fill.side = "B" THEN "LONG" ELSE "SHORT") = positionType)
        first == CHOOSE i \in DOMAIN recentFills :
                     /\ \A j \in DOMAIN recentFills : recentFills[j].time <= recentFills[i].time
                     /\ \A j \in 1..(i - 1) : recentFills[j].time < recentFills[i].time
    IN  IF Len(recentFills) > 0 THEN << recentFills[first] >> ELSE << >>

checkEventExists(db, eventId) == \E e \in db.events : e.event_id = eventId

\* INSERT OR IGNORE INTO ingested_events
saveEvent(db, eventId, t) ==
    IF checkEventExists(db, eventId) THEN db.events
    ELSE db.events \cup {[event_id |-> eventId, created_at |-> t]}

\* INSERT OR REPLACE INTO wallet_positions: the row replaces the rows equal
\* to it on the unique index (wallet_address, pair, open_event_id).
saveWalletPosition(db, position) ==
    {r \in db.positions :
        ~(/\ r.wallet_address = position.wallet_address
          /\ r.pair = position.pair
          /\ r.open_event_id = position.open_event_id)} \cup {position}

\* The call that fails during an ingestion cycle: none, or every call of one
\* of the store writes, of the key lookup or of the queue send.
IngestFaults == {"none", "saveWalletPosition", "saveEvent", "checkEventExists", "queueSend"}

\* The early returns of processPosition before the fill is looked up, without
\* the leverage test.
isSkippedAnyLeverage(pair, currentSize, notionalValue, leverage) ==
    \/ currentSize = 0
    \/ pair \in config.ignored_pairs
    \/ config.monitored_pairs # {} /\ pair \notin config.monitored_pairs
    \/ LessThan(notionalValue, Dollars(config.min_trade_size))

\* The early returns of processPosition before the fill is looked up: a
\* closed position, an ignored pair, a pair that is not monitored, a position
\* too small, a leverage too low.
isSkipped(pair, currentSize, notionalValue, leverage) ==
    \/ currentSize = 0
    \/ pair \in config.ignored_pairs
    \/ config.monitored_pairs # {} /\ pair \notin config.monitored_pairs
    \/ LessThan(notionalValue, Dollars(config.min_trade_size))
    \/ LessThan(leverage, config.required_leverage_min)

\* A processPosition that publishes the event before it stores the row.
processPositionPublishFirst(db, walletAddress, assetPosition, fills, t, fault) ==
    LET pair          == assetPosition.coin
        currentSize   == parseFloat(OrElse(assetPosition.szi, 0))
        entryPx       == parseFloat(OrElse(assetPosition.entryPx, 0))
        leverage      == parseInt(OrElse(assetPosition.leverage, 1))
        positionType  == IF LessThan(0, currentSize) THEN "LONG" ELSE "SHORT"
        absSize       == MathAbs(currentSize)
        notionalValue == calculateNotionalValue(entryPx, absSize)
        relevantFill  == findRelevantFill(fills, pair, positionType)
        entryTimestamp   == IF relevantFill # << >> THEN relevantFill[1].time ELSE t
        actualEntryPrice == IF relevantFill # << >> THEN parseFloat(relevantFill[1].px)
                            ELSE entryPx
        eventId       == generateEventId(walletAddress, pair, entryTimestamp, positionType)
        newPosition   == [wallet_address  |-> walletAddress,
                          pair            |-> pair,
                          position_type   |-> positionType,
                          entry_timestamp |-> entryTimestamp,
                          entry_price     |-> actualEntryPrice,
                          trade_size      |-> absSize,
                          leverage        |-> leverage,
                          last_updated    |-> t,
                          open_event_id   |-> eventId]
    IN  IF isSkipped(pair, currentSize, notionalValue, leverage) THEN db
        ELSE IF fault # "checkEventExists" /\ checkEventExists(db, eventId) THEN db
        ELSE [positions |-> IF fault = "saveWalletPosition" THEN db.positions
                            ELSE saveWalletPosition(db, newPosition),
              events    |-> IF fault = "saveEvent" THEN db.events
                            ELSE saveEvent(db, eventId, t),
              queue     |-> IF fault = "queueSend" THEN db.queue
                            ELSE Append(db.queue, newPosition)]

\* The tables and the queue after processPosition, at Date.now() = t, when
\* the calls named by fault fail.  checkEventExists answers false on an error;
\* the two writes run under Promise.all, each on its own: saveEvent swallows
\* its error, saveWalletPosition rethrows it and the event is not sent; an
\* error of the send leaves both writes done.
processPosition(db, walletAddress, assetPosition, fills, t, fault) ==
    LET pair          == assetPosition.coin
        currentSize   == parseFloat(OrElse(assetPosition.szi, 0))
        entryPx       == parseFloat(OrElse(assetPosition.entryPx, 0))
        leverage      == parseInt(OrElse(assetPosition.leverage, 1))
        positionType  == IF LessThan(0, currentSize) THEN "LONG" ELSE "SHORT"
        absSize       == MathAbs(currentSize)
        notionalValue == calculateNotionalValue(entryPx, absSize)
        relevantFill  == findRelevantFill(fills, pair, positionType)
        entryTimestamp   == IF relevantFill # << >> THEN relevantFill[1].time ELSE t
        actualEntryPrice == IF relevantFill # << >> THEN parseFloat(relevantFill[1].px)
                            ELSE entryPx
        eventId       == generateEventId(walletAddress, pair, entryTimestamp, positionType)
        newPosition   == [wallet_address  |-> walletAddress,
                          pair            |-> pair,
                          position_type   |-> positionType,
                          entry_timestamp |-> entryTimestamp,
                          entry_price     |-> actualEntryPrice,
                          trade_size      |-> absSize,
                          leverage        |-> leverage,
                          last_updated    |-> t,
                          open_event_id   |-> eventId]
    IN  IF isSkipped(pair, currentSize, notionalValue, leverage) THEN db
        ELSE IF fault # "checkEventExists" /\ checkEventExists(db, eventId) THEN db
        ELSE [positions |-> IF fault = "saveWalletPosition" THEN db.positions
                            ELSE saveWalletPosition(db, newPosition),
              events    |-> IF fault = "saveEvent" THEN db.events
                            ELSE saveEvent(db, eventId, t),
              queue     |-> IF fault \in {"saveWalletPosition", "queueSend"} THEN db.queue
                            ELSE Append(db.queue, newPosition)]

\* The fault met by position i of wallet w, when fault strikes at.
faultOf(fault, at, w, i) ==
    IF at = Everywhere \/ at = <<w, i>> THEN fault ELSE "none"

\* processWallet for the w-th active wallet: the positions of the snapshot,
\* in order, from the i-th on, each inside its own try/catch.
RECURSIVE processWallet(_, _, _, _, _, _)
processWallet(db, w, i, t, fault, at) ==
    IF i > Len(clearinghouse[ActiveWallets[w]]) THEN db
    ELSE processWallet(
             processPosition(db, ActiveWallets[w], clearinghouse[ActiveWallets[w]][i],
                             userFills[ActiveWallets[w]], t, faultOf(fault, at, w, i)),
             w, i + 1, t, fault, at)

\* A loop over the active wallets that is left at the first wallet whose
\* getClearinghouseState throws.
RECURSIVE processWalletsUncaught(_, _, _, _, _)
processWalletsUncaught(db, w, t, fault, at) ==
    IF w > Len(ActiveWallets) THEN db
    ELSE IF faultOf(fault, at, w, 0) = "getClearinghouseState"
    THEN db
    ELSE processWalletsUncaught(processWallet(db, w, 1, t, fault, at), w + 1, t, fault, at)

\* The loop of pollWalletActivity over the active wallets, from the w-th on,
\* each inside its own try/catch: a wallet whose getClearinghouseState
\* throws is left, and the loop goes on.
RECURSIVE processWallets(_, _, _, _, _)
processWallets(db, w, t, fault, at) ==
    IF w > Len(ActiveWallets) THEN db
    ELSE IF faultOf(fault, at, w, 0) = "getClearinghouseState"
    THEN processWallets(db, w + 1, t, fault, at)
    ELSE processWallets(processWallet(db, w, 1, t, fault, at), w + 1, t, fault, at)

\* DELETE FROM ingested_events WHERE created_at < Date.now() - olderThanMs
cleanupOldEvents(events, t) ==
    {e \in events : ~(e.created_at < t - 7 * 24 * 60 * 60 * 1000)}

IngestInit ==
    /\ signals = << >>
    /\ signal_targets = << >>
    /\ marketPrice = << >>
    /\ sweeps = 0
    /\ wallet_positions = {}
    /\ ingested_events = {}
    /\ signalQueue = << >>
    /\ clearinghouse \in [{ActiveWallets[1], ActiveWallets[2]} -> Snapshots]
    /\ userFills \in [{ActiveWallets[1], ActiveWallets[2]} -> FillHistories]
    /\ now = StartTime
    /\ polls = 0
    /\ signal_wallets = << >>
    /\ pendingEvents = {}
    /\ validPositions = << >>
    /\ walletPositions = {}
    /\ MonitorOutIdle
    /\ ingestFault = "none"
    /\ FaultIdle
    /\ BreakerIdle
    /\ LimiterIdle
    /\ ConfigDefault
    /\ RetryIdle
    /\ PerformanceIdle
    /\ NotifierIdle
    /\ RaceIdle

\* One ingestion cycle, pollWalletActivity, gap milliseconds after the last:
\* every active wallet is processed, and on some cycles the old events are
\* cleaned up at the end (Math.random() < 0.01).  A failing call is logged
\* and the cycle goes on with the next position; the cycles explored with a
\* failing call come one poll interval after the last and clean nothing up.
\* faults holds the calls that may fail, units the places where one may.
runPoll(limit, gaps, faults, units) ==
    /\ polls < limit
    /\ \E gap \in gaps, cleanup \in BOOLEAN, fault \in faults, at \in units :
        /\ now + gap <= MaxClock
        /\ fault # "none" => (gap = 60000 /\ ~cleanup)
        /\ fault = "none" => at = Everywhere
        /\ at # Everywhere => at[2] <= Len(clearinghouse[ActiveWallets[at[1]]])
        /\ (fault = "getClearinghouseState") = (at # Everywhere /\ at[2] = 0)
        /\ ingestFault' = fault
        /\ ingestFaultAt' = at
        /\ LET t  == now + gap
               db == processWallets([positions |-> wallet_positions,
                                     events    |-> ingested_events,
                                     queue     |-> signalQueue], 1, t, fault, at)
           IN  /\ wallet_positions' = db.positions
               /\ ingested_events' = IF cleanup THEN cleanupOldEvents(db.events, t)
                                     ELSE db.events
               /\ signalQueue' = db.queue
               /\ now' = t
    /\ polls' = polls + 1
    /\ UNCHANGED <<clearinghouse, userFills, signal_wallets, pendingEvents, collapseVars>>
    /\ UNCHANGED monitorVars
    /\ UNCHANGED <<monitorOut, perfVars, storeFailed, breakerVars, limiterVars, configVars, retryVars, notifierVars, raceVars>>

pollWalletActivity == runPoll(MaxPolls, PollGaps, IngestFaults, {Everywhere})

IngestNext == pollWalletActivity

SpecIngest == IngestInit /\ [][IngestNext]_vars

(***************************************************************************)
(* The two scheduled entry points, with a failure in one unit of work: one *)
(* wallet's fetch or one position's writes in an ingestion cycle, one      *)
(* pair's price or one signal's writes in a sweep.                         *)
(***************************************************************************)

\* Number of scheduled runs explored, cycles and sweeps together.
MaxScheduledRuns == 1

\* The calls of an ingestion cycle that throw for one unit of work.
UnitFaults == {"none", "getClearinghouseState", "saveWalletPosition", "queueSend"}

\* The units of work of an ingestion cycle: <<w, 0>> is the fetch of the
\* w-th active wallet, <<w, i>> its i-th position.
Units == {Everywhere} \cup ((1..Len(ActiveWallets)) \X (0..2))

IsolationInit ==
    /\ signals = [id \in SignalIds |->
                    [pair        |-> SignalRows[id].pair,
                     type        |-> SignalRows[id].type,
                     entry_price |-> SignalRows[id].entry_price,
                     stop_loss   |-> SignalRows[id].stop_loss,
                     targets     |-> SignalRows[id].targets,
                     avg_trade_size |-> SignalRows[id].avg_trade_size,
                     status      |-> "OPEN",
                     created_at  |-> 0]]
    /\ signal_targets = [id \in SignalIds |-> [i \in DOMAIN SignalRows[id].targets |-> FALSE]]
    /\ marketPrice = [p \in MonitoredPairs |-> NoPrice]
    /\ sweeps = 0
    /\ wallet_positions = {}
    /\ ingested_events = {}
    /\ signalQueue = << >>
    /\ clearinghouse \in {c \in [{ActiveWallets[1], ActiveWallets[2]} -> Snapshots] :
                              /\ c[ActiveWallets[1]][1].coin = "ETH"
                              /\ Len(c[ActiveWallets[1]]) = 2
                              /\ Len(c[ActiveWallets[2]]) = 1}
    /\ userFills \in [{ActiveWallets[1], ActiveWallets[2]} -> {<< >>}]
    /\ now = StartTime
    /\ polls = 0
    /\ signal_wallets = << >>
    /\ pendingEvents = {}
    /\ validPositions = << >>
    /\ walletPositions = {}
    /\ MonitorOutIdle
    /\ ingestFault = "none"
    /\ FaultIdle
    /\ BreakerIdle
    /\ LimiterIdle
    /\ ConfigDefault
    /\ RetryIdle
    /\ PerformanceIdle
    /\ NotifierIdle
    /\ RaceIdle

\* An ingestion cycle in which a call may throw for one unit of work.
pollWalletActivityUnitFailing ==
    /\ polls + sweeps < MaxScheduledRuns
    /\ runPoll(MaxScheduledRuns, {60000}, UnitFaults, Units)

\* A sweep in which a provider may fail for one pair, or updateSignalStatus
\* may throw for one signal.
monitorActivePricesUnitFailing ==
    /\ polls + sweeps < MaxScheduledRuns
    /\ runSweep(MaxScheduledRuns, TRUE, {"updateSignalStatus"})

IsolationNext == pollWalletActivityUnitFailing \/ monitorActivePricesUnitFailing

SpecIsolation == IsolationInit /\ [][IsolationNext]_vars

(***************************************************************************)
(* The ingestion boundary: one snapshot entry of any shape, under any      *)
(* configuration (specification SpecBoundary)                              *)
(***************************************************************************)

\* Ingestion cycles run on one payload.
MaxBoundaryPolls == 1

\* Configurations updateConfig can leave in the table: the rows of the
\* migration, a denylist, no allowlist, a minimum notional of 1000 dollars, a
\* minimum leverage of 3.
Configs ==
    { Config,
      [Config EXCEPT !.ignored_pairs = {"ETH"}],
      [Config EXCEPT !.monitored_pairs = {}],
      [Config EXCEPT !.min_trade_size = 1000],
      [Config EXCEPT !.required_leverage_min = 3] }

\* Snapshot entries the provider may send: a long and a short position, a
\* closed one, an instrument outside the default allowlist, a small
\* position, a low leverage, and entries whose price is absent, zero,
\* negative or no number, or whose size is no number.
Payloads ==
    { [coin |-> "ETH",  szi |-> 105, entryPx |-> 245050,     leverage |-> 5],
      [coin |-> "ETH",  szi |-> -50, entryPx |-> 245050,     leverage |-> 5],
      [coin |-> "ETH",  szi |-> 0,   entryPx |-> 245050,     leverage |-> 5],
      [coin |-> "DOGE", szi |-> 500000, entryPx |-> 12,      leverage |-> 5],
      [coin |-> "ETH",  szi |-> 2,   entryPx |-> 245050,     leverage |-> 5],
      [coin |-> "ETH",  szi |-> 105, entryPx |-> 245050,     leverage |-> 2],
      [coin |-> "ETH",  szi |-> 105, entryPx |-> 245050,     leverage |-> Missing],
      [coin |-> "ETH",  szi |-> 105, entryPx |-> Missing,    leverage |-> 5],
      [coin |-> "ETH",  szi |-> 105, entryPx |-> 0,          leverage |-> 5],
      [coin |-> "ETH",  szi |-> 105, entryPx |-> 0 - 245050, leverage |-> 5],
      [coin |-> "ETH",  szi |-> 105, entryPx |-> NonNumeric, leverage |-> 5],
      [coin |-> "ETH",  szi |-> NonNumeric, entryPx |-> 245050, leverage |-> 5] }

\* The fills of the longest history, as a set.
Fills ==
    LET history == CHOOSE h \in FillHistories : Len(h) > 0
    IN  {history[i] : i \in DOMAIN history}

\* The fill lists the provider may send: no fill, or the fills in any order.
FillLists == {<< >>} \cup Orderings(Fills)

BoundaryInit ==
    /\ signals = << >>
    /\ signal_targets = << >>
    /\ marketPrice = << >>
    /\ sweeps = 0
    /\ wallet_positions = {}
    /\ ingested_events = {}
    /\ signalQueue = << >>
    /\ \E payload \in Payloads :
           clearinghouse = [w \in {ActiveWallets[1], ActiveWallets[2]} |->
                               IF w = ActiveWallets[1] THEN << payload >> ELSE << >>]
    /\ \E fills \in FillLists :
           userFills = [w \in {ActiveWallets[1], ActiveWallets[2]} |->
                           IF w = ActiveWallets[1] THEN fills ELSE << >>]
    /\ now = StartTime
    /\ polls = 0
    /\ signal_wallets = << >>
    /\ pendingEvents = {}
    /\ validPositions = << >>
    /\ walletPositions = {}
    /\ MonitorOutIdle
    /\ ingestFault = "none"
    /\ FaultIdle
    /\ BreakerIdle
    /\ LimiterIdle
    /\ config \in Configs
    /\ trades = 0
    /\ configRows = << >>
    /\ RetryIdle
    /\ PerformanceIdle
    /\ NotifierIdle
    /\ RaceIdle

\* One ingestion cycle a poll interval after the last, every call succeeding.
pollWalletActivityHealthy == runPoll(MaxBoundaryPolls, {60000}, {"none"}, {Everywhere})

BoundaryNext == pollWalletActivityHealthy

SpecBoundary == BoundaryInit /\ [][BoundaryNext]_vars

(***************************************************************************)
(* Wallets that change their exposure between ingestion cycles             *)
(* (specification SpecExposure)                                            *)
(***************************************************************************)

\* Ingestion cycles run, and changes of exposure, in one behaviour.
MaxExposurePolls == 2
MaxTrades == 1

\* What a wallet's snapshot may show for ETH: a long position, a short one,
\* an entry of size zero, or no entry.
Exposures ==
    { << [coin |-> "ETH", szi |-> 105, entryPx |-> 245050, leverage |-> 5] >>,
      << [coin |-> "ETH", szi |-> -50, entryPx |-> 245120, leverage |-> 5] >>,
      << [coin |-> "ETH", szi |-> 0,   entryPx |-> 245050, leverage |-> 5] >>,
      << >> }

ExposureInit ==
    /\ signals = << >>
    /\ signal_targets = << >>
    /\ marketPrice = << >>
    /\ sweeps = 0
    /\ wallet_positions = {}
    /\ ingested_events = {}
    /\ signalQueue = << >>
    /\ clearinghouse \in [{ActiveWallets[1], ActiveWallets[2]} -> Exposures]
    /\ \E fills \in FillHistories :
           userFills = [w \in {ActiveWallets[1], ActiveWallets[2]} |->
                           IF w = ActiveWallets[1] THEN fills ELSE << >>]
    /\ now = StartTime
    /\ polls = 0
    /\ signal_wallets = << >>
    /\ pendingEvents = {}
    /\ validPositions = << >>
    /\ walletPositions = {}
    /\ MonitorOutIdle
    /\ ingestFault = "none"
    /\ FaultIdle
    /\ BreakerIdle
    /\ LimiterIdle
    /\ config = Config
    /\ trades = 0
    /\ configRows = << >>
    /\ RetryIdle
    /\ PerformanceIdle
    /\ NotifierIdle
    /\ RaceIdle

\* One ingestion cycle a poll interval after the last, every call succeeding.
pollWalletActivityExposure == runPoll(MaxExposurePolls, {60000}, {"none"}, {Everywhere})

\* A wallet trades: the provider's next snapshot of it shows another exposure.
walletTrades ==
    /\ trades < MaxTrades
    /\ \E w \in DOMAIN clearinghouse, exposure \in Exposures :
          /\ exposure # clearinghouse[w]
          /\ clearinghouse' = [clearinghouse EXCEPT ![w] = exposure]
    /\ trades' = trades + 1
    /\ UNCHANGED configRows
    /\ UNCHANGED <<wallet_positions, ingested_events, signalQueue, userFills, now,
                   polls, signal_wallets, pendingEvents, collapseVars, config>>
    /\ UNCHANGED monitorVars
    /\ UNCHANGED <<monitorOut, ingestFault, perfVars, faultVars, breakerVars, limiterVars, retryVars, notifierVars, raceVars>>

ExposureNext == pollWalletActivityExposure \/ walletTrades

SpecExposure == ExposureInit /\ [][ExposureNext]_vars

(***************************************************************************)
(* Consensus Signal Detector.  The worker's file is not part of the        *)
(* sources; its handler follows section 4.2 of the specification, its      *)
(* per-wallet collapse and its cooldown query are the ones quoted in       *)
(* AUDIT_REPORT.md, and its store accesses are those of DatabaseManager.   *)
(***************************************************************************)

\* Minimum wallet quorum of the explored configuration (config wallet_count).
wallet_count == 2

\* Consensus window in minutes (config time_window_min).
time_window_min == 10

\* Cooldown between two signals of one pair and direction, in minutes.
cooldown_min == 5

\* Number of wallet_positions rows explored.
MaxPositions == 4

\* The detector's clock is not advanced past this many minutes.
MaxMinutes == 5

DetectorWallets ==
    {ActiveWallets[1], ActiveWallets[2], "0x023a3d058020fb76cca98f01b3c48c8938a22355"}

\* The (pair, direction) of the position-open events explored.
DetectorMarkets == {<<"ETH", "LONG">>, <<"BTC", "SHORT">>}

\* Entry price (cents) and size of the positions opened on a pair.
MarketEntry(pair) ==
    IF pair = "ETH" THEN [entry_price |-> 245050, trade_size |-> 10]
    ELSE [entry_price |-> 4210000, trade_size |-> 1]

\* Time steps of the detector's clock.
TickGaps == {4 * 60000, cooldown_min * 60000}

\* Defaults of the config table for a new signal.
default_sl_percent == 0 - 25
tps_percent == <<20, 35, 50>>

\* SELECT * FROM wallet_positions WHERE pair = ? AND position_type = ?
\* AND entry_timestamp >= Date.now() - timeWindowMs ORDER BY entry_timestamp DESC
\* The result lists the store may return: rows of one timestamp in any order.
getRecentPositions(pair, positionType, timeWindowMs) ==
    LET rows == {r \in wallet_positions :
                    /\ r.pair = pair
                    /\ r.position_type = positionType
                    /\ r.entry_timestamp >= now - timeWindowMs}
    IN  {results \in Orderings(rows) :
            \A i, j \in DOMAIN results :
                i < j => results[i].entry_timestamp >= results[j].entry_timestamp}

\* The loop body before the audit: the entry of the wallet is overwritten.
keepLastSeen(kept, pos) ==
    {r \in kept : r.wallet_address # pos.wallet_address} \cup {pos}

\* The loop body of the per-wallet collapse: pos replaces the entry kept for
\* its wallet when there is none or when pos is more recent.
keepMostRecent(kept, pos) ==
    IF \/ ~\E r \in kept : r.wallet_address = pos.wallet_address
       \/ \E r \in kept :
            /\ r.wallet_address = pos.wallet_address
            /\ pos.entry_timestamp > r.entry_timestamp
    THEN {r \in kept : r.wallet_address # pos.wallet_address} \cup {pos}
    ELSE kept

\* for (const pos of validPositions) { ... }, from the i-th position on.
RECURSIVE collapseByWallet(_, _, _)
collapseByWallet(positions, i, kept) ==
    IF i > Len(positions) THEN kept
    ELSE collapseByWallet(positions, i + 1, keepMostRecent(kept, positions[i]))

checkRecentSignalNever(pair, positionType, cooldownMs) == {}

\* SELECT signal_id FROM signals WHERE pair = ? AND type = ? AND created_at > ?
\* The ids found; the empty set stands for null.
checkRecentSignal(pair, positionType, cooldownMs) ==
    {id \in DOMAIN signals :
        /\ signals[id].pair = pair
        /\ signals[id].type = positionType
        /\ signals[id].created_at > now - cooldownMs}

RECURSIVE SumNotional(_)
SumNotional(S) ==
    IF S = {} THEN 0
    ELSE LET r == CHOOSE y \in S : TRUE
         IN  r.entry_price * r.trade_size + SumNotional(S \ {r})

RECURSIVE SumSize(_)
SumSize(S) ==
    IF S = {} THEN 0
    ELSE LET r == CHOOSE y \in S : TRUE
         IN  r.trade_size + SumSize(S \ {r})

\* Notional-weighted average of the contributing entry prices.
referencePrice(participants) == SumNotional(participants) \div SumSize(participants)

DetectorInit ==
    /\ signals = << >>
    /\ signal_targets = << >>
    /\ signal_wallets = << >>
    /\ pendingEvents = {}
    /\ validPositions = << >>
    /\ walletPositions = {}
    /\ marketPrice = << >>
    /\ sweeps = 0
    /\ wallet_positions = {}
    /\ ingested_events = {}
    /\ signalQueue = << >>
    /\ clearinghouse = << >>
    /\ userFills = << >>
    /\ now = 0
    /\ polls = 0
    /\ MonitorOutIdle
    /\ ingestFault = "none"
    /\ FaultIdle
    /\ BreakerIdle
    /\ LimiterIdle
    /\ ConfigDefault
    /\ RetryIdle
    /\ PerformanceIdle
    /\ NotifierIdle
    /\ RaceIdle

\* The Ingestor's output as section 4.1 states it: a wallet opens a position,
\* its row is stored under the key (wallet, pair, direction, entry minute)
\* unless that key was seen, and the position-open event is published.
positionOpened ==
    /\ Cardinality(wallet_positions) < MaxPositions
    /\ \E w \in DetectorWallets, m \in DetectorMarkets :
        LET key == <<w, m[1], m[2], now \div 60000>>
            row == [wallet_address  |-> w,
                    pair            |-> m[1],
                    position_type   |-> m[2],
                    entry_timestamp |-> now,
                    entry_price     |-> MarketEntry(m[1]).entry_price,
                    trade_size      |-> MarketEntry(m[1]).trade_size,
                    open_event_id   |-> key]
        IN  /\ \A r \in wallet_positions : r.open_event_id # key
            /\ wallet_positions' = wallet_positions \cup {row}
            /\ pendingEvents' = pendingEvents \cup {row}
    /\ UNCHANGED <<signals, signal_targets, signal_wallets, now>>
    /\ UNCHANGED <<marketPrice, sweeps, ingested_events, signalQueue, clearinghouse,
                   userFills, polls, collapseVars>>
    /\ UNCHANGED <<monitorOut, ingestFault, perfVars, faultVars, breakerVars, limiterVars, configVars, retryVars, notifierVars, raceVars>>

\* The queue consumer on one position-open event, delivered in any order: the
\* window of the event's pair and direction is re-evaluated and promoted to a
\* signal when the quorum is met and no signal is in cooldown.
detectSignal ==
    /\ \E event \in pendingEvents :
        \E positions \in getRecentPositions(event.pair, event.position_type,
                                            time_window_min * 60 * 1000) :
            LET kept          == collapseByWallet(positions, 1, {})
                uniqueWallets == {positions[k].wallet_address : k \in DOMAIN positions}
                recent        == checkRecentSignal(event.pair, event.position_type,
                                                   cooldown_min * 60 * 1000)
            IN  /\ pendingEvents' = pendingEvents \ {event}
                /\ IF Cardinality(uniqueWallets) >= wallet_count /\ recent = {}
                   THEN /\ signals' = Append(signals,
                              [pair        |-> event.pair,
                               type        |-> event.position_type,
                               entry_price |-> referencePrice(kept),
                               stop_loss   |-> default_sl_percent,
                               targets     |-> tps_percent,
                               status      |-> "OPEN",
                               created_at  |-> now])
                        /\ signal_wallets' = Append(signal_wallets, kept)
                        /\ signal_targets' = Append(signal_targets,
                              [k \in DOMAIN tps_percent |-> FALSE])
                   ELSE UNCHANGED <<signals, signal_wallets, signal_targets>>
    /\ UNCHANGED <<wallet_positions, now>>
    /\ UNCHANGED <<marketPrice, sweeps, ingested_events, signalQueue, clearinghouse,
                   userFills, polls, collapseVars>>
    /\ UNCHANGED <<monitorOut, ingestFault, perfVars, faultVars, breakerVars, limiterVars, configVars, retryVars, notifierVars, raceVars>>

\* Time passes.
tick ==
    /\ \E gap \in TickGaps :
        /\ now + gap <= MaxMinutes * 60000
        /\ now' = now + gap
    /\ UNCHANGED <<signals, signal_targets, signal_wallets, wallet_positions, pendingEvents>>
    /\ UNCHANGED <<marketPrice, sweeps, ingested_events, signalQueue, clearinghouse,
                   userFills, polls, collapseVars>>
    /\ UNCHANGED <<monitorOut, ingestFault, perfVars, faultVars, breakerVars, limiterVars, configVars, retryVars, notifierVars, raceVars>>

DetectorNext == positionOpened \/ detectSignal \/ tick

SpecDetector == DetectorInit /\ [][DetectorNext]_vars

(***************************************************************************)
(* The per-wallet collapse alone, over every list of positions of one      *)
(* pair and direction, in every order.                                     *)
(***************************************************************************)

\* Entry times (minutes) of the positions listed.
EntryMinutes == {0, 4, 5}

\* The rows a list is drawn from: one per wallet and entry minute, as the
\* key (wallet, pair, direction, entry minute) allows.
CandidateRows ==
    {[wallet_address  |-> w,
      pair            |-> "ETH",
      position_type   |-> "LONG",
      entry_timestamp |-> m * 60000,
      entry_price     |-> MarketEntry("ETH").entry_price + m,
      trade_size      |-> MarketEntry("ETH").trade_size,
      open_event_id   |-> <<w, "ETH", "LONG", m>>] : w \in DetectorWallets, m \in EntryMinutes}

CollapseInit ==
    /\ \E rows \in SUBSET CandidateRows :
        /\ Cardinality(rows) <= MaxPositions
        /\ validPositions \in Orderings(rows)
    /\ walletPositions = {}
    /\ signals = << >>
    /\ signal_targets = << >>
    /\ signal_wallets = << >>
    /\ marketPrice = << >>
    /\ sweeps = 0
    /\ wallet_positions = {}
    /\ ingested_events = {}
    /\ signalQueue = << >>
    /\ pendingEvents = {}
    /\ clearinghouse = << >>
    /\ userFills = << >>
    /\ now = 0
    /\ polls = 0
    /\ MonitorOutIdle
    /\ ingestFault = "none"
    /\ FaultIdle
    /\ BreakerIdle
    /\ LimiterIdle
    /\ ConfigDefault
    /\ RetryIdle
    /\ PerformanceIdle
    /\ NotifierIdle
    /\ RaceIdle

\* The loop runs once over a list that is not empty.
collapsePositions ==
    /\ validPositions # << >>
    /\ walletPositions = {}
    /\ walletPositions' = collapseByWallet(validPositions, 1, {})
    /\ UNCHANGED <<validPositions, signals, signal_targets, signal_wallets, marketPrice,
                   sweeps, wallet_positions, ingested_events, signalQueue, pendingEvents,
                   clearinghouse, userFills, now, polls>>
    /\ UNCHANGED <<monitorOut, ingestFault, perfVars, faultVars, breakerVars, limiterVars, configVars, retryVars, notifierVars, raceVars>>

CollapseNext == collapsePositions

SpecCollapse == CollapseInit /\ [][CollapseNext]_vars

(***************************************************************************)
(* The detector under concurrent queue consumers.  Each consumer runs the  *)
(* handler on its own event; the store is shared, and every awaited store  *)
(* call is a point where the other consumer may run.  The cooldown query   *)
(* (checkRecentSignal) and the INSERT of saveSignal are two such calls.    *)
(***************************************************************************)

\* The concurrent consumers of the signal queue.
Consumers == {1, 2}

\* Number of position-open events pending when the consumers start.
MaxRaceEvents == 3

\* A consumer between two events.
IdleConsumer == [pc |-> "idle", event |-> << >>, kept |-> {}, pass |-> FALSE]

\* The rows the Ingestor stored, at time 0, for the positions opened.
OpenedRows ==
    {[wallet_address  |-> w,
      pair            |-> m[1],
      position_type   |-> m[2],
      entry_timestamp |-> 0,
      entry_price     |-> MarketEntry(m[1]).entry_price,
      trade_size      |-> MarketEntry(m[1]).trade_size,
      open_event_id   |-> <<w, m[1], m[2], 0>>] : w \in DetectorWallets, m \in DetectorMarkets}

DetectorRaceInit ==
    /\ signals = << >>
    /\ signal_targets = << >>
    /\ signal_wallets = << >>
    /\ wallet_positions \in {S \in SUBSET OpenedRows :
                                Cardinality(S) >= wallet_count /\ Cardinality(S) <= MaxRaceEvents}
    /\ pendingEvents = wallet_positions
    /\ consumers = [c \in Consumers |-> IdleConsumer]
    /\ sweepers = << >>
    /\ validPositions = << >>
    /\ walletPositions = {}
    /\ marketPrice = << >>
    /\ sweeps = 0
    /\ ingested_events = {}
    /\ signalQueue = << >>
    /\ clearinghouse = << >>
    /\ userFills = << >>
    /\ now = 0
    /\ polls = 0
    /\ MonitorOutIdle
    /\ ingestFault = "none"
    /\ FaultIdle
    /\ BreakerIdle
    /\ LimiterIdle
    /\ ConfigDefault
    /\ RetryIdle
    /\ PerformanceIdle
    /\ NotifierIdle

\* A consumer receives one event, reads the window of its pair and direction
\* and runs the cooldown query: the first part of the handler, up to the
\* answer of checkRecentSignal.
consumerCheck(c) ==
    /\ consumers[c].pc = "idle"
    /\ \E event \in pendingEvents :
        \E positions \in getRecentPositions(event.pair, event.position_type,
                                            time_window_min * 60 * 1000) :
            LET kept          == collapseByWallet(positions, 1, {})
                uniqueWallets == {positions[k].wallet_address : k \in DOMAIN positions}
                recent        == checkRecentSignal(event.pair, event.position_type,
                                                   cooldown_min * 60 * 1000)
            IN  /\ pendingEvents' = pendingEvents \ {event}
                /\ consumers' = [consumers EXCEPT ![c] =
                      [pc    |-> "checked",
                       event |-> event,
                       kept  |-> kept,
                       pass  |-> Cardinality(uniqueWallets) >= wallet_count /\ recent = {}]]
    /\ UNCHANGED <<signals, signal_targets, signal_wallets, wallet_positions, now>>
    /\ UNCHANGED <<marketPrice, sweeps, ingested_events, signalQueue, clearinghouse,
                   userFills, polls, collapseVars, sweepers>>
    /\ UNCHANGED <<monitorOut, ingestFault, perfVars, faultVars, breakerVars, limiterVars, configVars, retryVars, notifierVars>>

\* The rest of the handler: the consumer whose test passed inserts the signal
\* (saveSignal: a plain INSERT), and either way returns for its next event.
consumerSave(c) ==
    /\ consumers[c].pc = "checked"
    /\ IF consumers[c].pass
       THEN /\ signals' = Append(signals,
                  [pair        |-> consumers[c].event.pair,
                   type        |-> consumers[c].event.position_type,
                   entry_price |-> referencePrice(consumers[c].kept),
                   stop_loss   |-> default_sl_percent,
                   targets     |-> tps_percent,
                   status      |-> "OPEN",
                   created_at  |-> now])
            /\ signal_wallets' = Append(signal_wallets, consumers[c].kept)
            /\ signal_targets' = Append(signal_targets, [k \in DOMAIN tps_percent |-> FALSE])
       ELSE UNCHANGED <<signals, signal_wallets, signal_targets>>
    /\ consumers' = [consumers EXCEPT ![c] = IdleConsumer]
    /\ UNCHANGED <<wallet_positions, pendingEvents, now>>
    /\ UNCHANGED <<marketPrice, sweeps, ingested_events, signalQueue, clearinghouse,
                   userFills, polls, collapseVars, sweepers>>
    /\ UNCHANGED <<monitorOut, ingestFault, perfVars, faultVars, breakerVars, limiterVars, configVars, retryVars, notifierVars>>

\* Time passes while the consumers run.
raceTick ==
    /\ \E gap \in TickGaps :
        /\ now + gap <= MaxMinutes * 60000
        /\ now' = now + gap
    /\ UNCHANGED <<signals, signal_targets, signal_wallets, wallet_positions, pendingEvents>>
    /\ UNCHANGED <<marketPrice, sweeps, ingested_events, signalQueue, clearinghouse,
                   userFills, polls, collapseVars>>
    /\ UNCHANGED <<monitorOut, ingestFault, perfVars, faultVars, breakerVars, limiterVars, configVars, retryVars, notifierVars, raceVars>>

DetectorRaceNext ==
    \/ \E c \in Consumers : consumerCheck(c)
    \/ \E c \in Consumers : consumerSave(c)
    \/ raceTick

SpecDetectorRace == DetectorRaceInit /\ [][DetectorRaceNext]_vars

(***************************************************************************)
(* The Price Monitor under overlapping sweeps.  A sweep reads the open     *)
(* signals once (getActiveSignals) and then checks each signal of that     *)
(* snapshot against the price it fetched; another sweep may read and       *)
(* write between the two.                                                  *)
(***************************************************************************)

\* The sweeps that overlap.
Sweepers == {1, 2}

\* A sweep that has not started.
IdleSweeper == [pc |-> "idle", snapshot |-> {}, price |-> << >>]

SweepRaceInit ==
    /\ signals = [id \in SignalIds |->
                    [pair        |-> SignalRows[id].pair,
                     type        |-> SignalRows[id].type,
                     entry_price |-> SignalRows[id].entry_price,
                     stop_loss   |-> SignalRows[id].stop_loss,
                     targets     |-> SignalRows[id].targets,
                     avg_trade_size |-> SignalRows[id].avg_trade_size,
                     status      |-> "OPEN",
                     created_at  |-> 0]]
    /\ signal_targets = [id \in SignalIds |-> [i \in DOMAIN SignalRows[id].targets |-> FALSE]]
    /\ marketPrice = [p \in MonitoredPairs |-> NoPrice]
    /\ sweeps = 0
    /\ sweepers = [w \in Sweepers |-> IdleSweeper]
    /\ consumers = << >>
    /\ wallet_positions = {}
    /\ ingested_events = {}
    /\ signalQueue = << >>
    /\ clearinghouse = << >>
    /\ userFills = << >>
    /\ now = 0
    /\ polls = 0
    /\ signal_wallets = << >>
    /\ pendingEvents = {}
    /\ validPositions = << >>
    /\ walletPositions = {}
    /\ MonitorOutIdle
    /\ ingestFault = "none"
    /\ FaultIdle
    /\ BreakerIdle
    /\ LimiterIdle
    /\ ConfigDefault
    /\ RetryIdle
    /\ PerformanceIdle
    /\ NotifierIdle

\* A sweep starts: it reads the open signals and fetches the price of each
\* of their pairs (here the primary provider answers).
sweepRead(w) ==
    /\ sweepers[w].pc = "idle"
    /\ \E eth \in PricesOf("ETH"), sol \in PricesOf("SOL") :
        LET active == getActiveSignals
            swept  == groupSignalsByPair(active)
            price  == [p \in swept |->
                         getCurrentPrice(p, IF p = "ETH" THEN eth ELSE sol, NoPrice).price]
        IN  /\ active # {}
            \* a pair without open signal is not fetched: one choice stands for all
            /\ "ETH" \notin swept => eth = 245050
            /\ "SOL" \notin swept => sol = 10000
            /\ sweepers' = [sweepers EXCEPT ![w] =
                              [pc |-> "read", snapshot |-> active, price |-> price]]
    /\ UNCHANGED <<monitorVars, monitorOut, ingestVars>>
    /\ UNCHANGED <<signal_wallets, pendingEvents, collapseVars>>
    /\ UNCHANGED <<ingestFault, perfVars, faultVars, breakerVars, limiterVars, configVars, retryVars, notifierVars, consumers>>

\* The sweep checks every signal of its snapshot against its price: the
\* status and target writes of processSignalPriceCheck go to the store as
\* it is now (updateSignalStatus and updateSignalTarget select by signal_id
\* alone).
sweepWrite(w) ==
    /\ sweepers[w].pc = "read"
    /\ LET touched == sweepers[w].snapshot
           checked == [id \in touched |->
                         processSignalPriceCheck(id, sweepers[w].price[signals[id].pair], "none")]
       IN  writeChecked(touched, checked, {})
    /\ sweepers' = [sweepers EXCEPT ![w] = [pc |-> "done", snapshot |-> {}, price |-> << >>]]
    /\ sweeps' = sweeps + 1
    /\ UNCHANGED <<marketPrice, priceQueries, ingestVars>>
    /\ UNCHANGED <<signal_wallets, pendingEvents, collapseVars>>
    /\ UNCHANGED <<ingestFault, perfVars, faultVars, breakerVars, limiterVars, configVars, retryVars, notifierVars, consumers>>

SweepRaceNext ==
    \/ \E w \in Sweepers : sweepRead(w)
    \/ \E w \in Sweepers : sweepWrite(w)

SpecSweepRace == SweepRaceInit /\ [][SweepRaceNext]_vars

(***************************************************************************)
(* Notifier: the queue consumer of NOTIFICATION_QUEUE.                     *)
(***************************************************************************)

\* Largest batch explored.
MaxBatch == 2

\* The types of the notification events.
NotificationTypes == {"new_signal", "SL_HIT", "TP_HIT", "PARTIAL_TP"}

\* A message of the batch: its event type and what the calls made for it
\* will meet.  send: TelegramClient.sendMessage returns true ("ok") or
\* throws after its retries ("error"); log: the INSERT of logNotification
\* succeeds or fails.
Messages == [type : NotificationTypes, send : {"ok", "error"}, log : {"ok", "error"}]

\* The batches delivered: 1 to MaxBatch messages.
RECURSIVE BatchesOf(_)
BatchesOf(n) ==
    IF n = 0 THEN {<< >>}
    ELSE BatchesOf(n - 1) \cup
         {Append(b, msg) : b \in {x \in BatchesOf(n - 1) : Len(x) = n - 1}, msg \in Messages}

\* A handler for one event whose catch block logs the error and returns.
processNotificationEventQuiet(event) ==
    [sent |-> event.send = "ok", threw |-> FALSE]

\* processNotificationEvent on one event: whether Telegram accepted the
\* message and whether the function threw.  formatMessage and
\* logNotification catch their own errors; a send that fails throws, and
\* the catch block rethrows.
processNotificationEvent(event) ==
    LET success == event.send = "ok"
    IN  [sent |-> success, threw |-> ~success]

NotifierInit ==
    /\ batch \in [envValid : BOOLEAN, messages : BatchesOf(MaxBatch) \ {<< >>}]
    /\ acked = [i \in DOMAIN batch.messages |-> 0]
    /\ retried = [i \in DOMAIN batch.messages |-> 0]
    /\ sent = [i \in DOMAIN batch.messages |-> FALSE]
    /\ signals = << >>
    /\ signal_targets = << >>
    /\ signal_wallets = << >>
    /\ marketPrice = << >>
    /\ sweeps = 0
    /\ wallet_positions = {}
    /\ ingested_events = {}
    /\ signalQueue = << >>
    /\ pendingEvents = {}
    /\ validPositions = << >>
    /\ walletPositions = {}
    /\ clearinghouse = << >>
    /\ userFills = << >>
    /\ now = 0
    /\ polls = 0
    /\ MonitorOutIdle
    /\ ingestFault = "none"
    /\ FaultIdle
    /\ BreakerIdle
    /\ LimiterIdle
    /\ ConfigDefault
    /\ RetryIdle
    /\ PerformanceIdle
    /\ RaceIdle

\* The queue handler on the batch.  When validateEnvironment throws, the
\* outer catch retries every message and the loop never runs; otherwise
\* each message is processed in its own try: ack() after a normal return,
\* retry() in the catch.
queue ==
    /\ batch # << >>
    /\ \A i \in DOMAIN acked : acked[i] + retried[i] = 0
    /\ LET looped  == batch.envValid
           outcome == [i \in DOMAIN batch.messages |->
                          processNotificationEvent(batch.messages[i])]
       IN  /\ sent' = [i \in DOMAIN batch.messages |-> looped /\ outcome[i].sent]
           /\ acked' = [i \in DOMAIN batch.messages |->
                          IF looped /\ ~outcome[i].threw THEN 1 ELSE 0]
           /\ retried' = [i \in DOMAIN batch.messages |->
                          (IF looped /\ outcome[i].threw THEN 1 ELSE 0)
                          + (IF ~looped THEN 1 ELSE 0)]
    /\ UNCHANGED <<batch, monitorVars, monitorOut, ingestVars>>
    /\ UNCHANGED <<signal_wallets, pendingEvents, collapseVars>>
    /\ UNCHANGED <<ingestFault, perfVars, faultVars, breakerVars, limiterVars, configVars, retryVars, raceVars>>

NotifierNext == queue

SpecNotifier == NotifierInit /\ [][NotifierNext]_vars

(***************************************************************************)
(* Provider calls: withRetry (shared/utils.ts) around the fetch of         *)
(* HyperliquidClient.getClearinghouseState (shared/api-clients.ts).        *)
(* A response is its HTTP status, or 0 for a fetch that timed out.         *)
(***************************************************************************)

\* Default RetryOptions.
maxRetries == 3
baseDelay == 1000
maxDelay == 10000
backoffMultiplier == 2

\* fetchWithTimeout aborted: it throws a RetryableError, there is no status.
TimedOut == 0

\* The responses explored: success, not found, rate limited, two server
\* errors, a timeout.
Responses == {200, 404, 429, 500, 503, TimedOut}

\* Values of Math.random() * 1000 explored: the least and the greatest.
Jitters == {0, 999}

\* Every sequence of n responses.
RECURSIVE ResponseSeqs(_)
ResponseSeqs(n) ==
    IF n = 0 THEN {<< >>}
    ELSE {Append(r, x) : r \in ResponseSeqs(n - 1), x \in Responses}

RECURSIVE Pow(_, _)
Pow(b, e) == IF e = 0 THEN 1 ELSE b * Pow(b, e - 1)

Min(a, b) == IF a < b THEN a ELSE b

\* The body passed to withRetry by getClearinghouseState, on one response:
\* what it returns, or the error it throws (status 0: not an ApiError).
clearinghouseOperation(response) ==
    IF response = TimedOut
    THEN [threw |-> TRUE, apiError |-> FALSE, status |-> 0, value |-> "none"]
    ELSE IF response = 200
    THEN [threw |-> FALSE, apiError |-> FALSE, status |-> 0, value |-> "data"]
    ELSE IF response = 429
    THEN [threw |-> TRUE, apiError |-> TRUE, status |-> response, value |-> "none"]
    ELSE IF response >= 500
    THEN [threw |-> TRUE, apiError |-> TRUE, status |-> response, value |-> "none"]
    ELSE [threw |-> FALSE, apiError |-> FALSE, status |-> 0, value |-> "null"]

\* A retry test that holds of no error: every failure goes to the backoff.
nonRetryableNever(error) == FALSE

\* A retry test that lets a rate-limited call through to the backoff.
nonRetryableExcept429(error) ==
    error.apiError /\ error.status # 0 /\ error.status < 500 /\ error.status # 429

\* error instanceof ApiError && error.status && error.status < 500
nonRetryable(error) ==
    error.apiError /\ error.status # 0 /\ error.status < 500

\* withRetry from the given attempt on, the provider answering the attempts
\* in order: the number of attempts made, the value returned ("threw" when
\* an error is rethrown), the jittered delays slept, and the outcome of the
\* last attempt (the error rethrown, when one is).
RECURSIVE withRetry(_, _, _)
withRetry(responses, attempt, delays) ==
    LET r == clearinghouseOperation(responses[attempt + 1])
        delay == Min(baseDelay * Pow(backoffMultiplier, attempt), maxDelay)
        jitteredDelay == delay + jitter[attempt + 1]
    IN  IF ~r.threw
        THEN [attempts |-> attempt + 1, result |-> r.value, delays |-> delays, last |-> r]
        ELSE IF nonRetryable(r) \/ attempt = maxRetries
        THEN [attempts |-> attempt + 1, result |-> "threw", delays |-> delays, last |-> r]
        ELSE withRetry(responses, attempt + 1, Append(delays, jitteredDelay))

RetryInit ==
    /\ upstream \in ResponseSeqs(maxRetries + 1)
    /\ call = << >>
    /\ jitter \in [1..maxRetries -> Jitters]
    /\ signals = << >>
    /\ signal_targets = << >>
    /\ signal_wallets = << >>
    /\ marketPrice = << >>
    /\ sweeps = 0
    /\ wallet_positions = {}
    /\ ingested_events = {}
    /\ signalQueue = << >>
    /\ pendingEvents = {}
    /\ validPositions = << >>
    /\ walletPositions = {}
    /\ clearinghouse = << >>
    /\ userFills = << >>
    /\ now = 0
    /\ polls = 0
    /\ MonitorOutIdle
    /\ ingestFault = "none"
    /\ FaultIdle
    /\ BreakerIdle
    /\ LimiterIdle
    /\ ConfigDefault
    /\ PerformanceIdle
    /\ NotifierIdle
    /\ RaceIdle

\* One call of getClearinghouseState, to its return or throw.
getClearinghouseState ==
    /\ upstream # << >>
    /\ call = << >>
    /\ call' = withRetry(upstream, 0, << >>)
    /\ UNCHANGED <<upstream, jitter, monitorVars, monitorOut, ingestVars>>
    /\ UNCHANGED <<signal_wallets, pendingEvents, collapseVars>>
    /\ UNCHANGED <<ingestFault, perfVars, faultVars, breakerVars, limiterVars, configVars, notifierVars, raceVars>>

RetryNext == getClearinghouseState

SpecRetry == RetryInit /\ [][RetryNext]_vars

\* The call, once made, runs to its return or throw: its loop has a bounded
\* attempt count, each fetch ends within its timeout and each sleep ends.
SpecRetryLive == SpecRetry /\ WF_vars(getClearinghouseState)

(***************************************************************************)
(* RateLimiter (shared/utils.ts): concurrent callers of waitForSlot on one *)
(* limiter.  A recorded timestamp is kept as its age, now - time, which is *)
(* all the code reads of it; time passes in steps of slotBuffer.           *)
(***************************************************************************)

\* The limiter explored: new RateLimiter(maxRequests, windowMs).
maxRequests == 2
windowMs == 1000

\* The buffer added to the wait.
slotBuffer == 100

\* The concurrent callers of waitForSlot.
LimiterCallers == {"a", "b", "c"}

Max(a, b) == IF a > b THEN a ELSE b

\* A filter that keeps every timestamp.
evictNone(recorded) == recorded

\* this.requests.filter(time => now - time < this.windowMs)
evict(recorded) == SelectSeq(recorded, LAMBDA age : age < windowMs)

\* now - Math.min(...this.requests): the age of the oldest request.
RECURSIVE oldestAge(_)
oldestAge(recorded) ==
    IF recorded = << >> THEN 0
    ELSE Max(Head(recorded), oldestAge(Tail(recorded)))

\* A body of waitForSlot that records the request without looking at the
\* number of requests in the window.
slotSegmentUnlimited(c) ==
    /\ requests' = Append(evict(requests), 0)
    /\ grantAges' = Append(grantAges, 0)
    /\ waiters' = [waiters EXCEPT ![c] = [pc |-> "granted", sleep |-> 0]]

\* The body of waitForSlot for caller c, from its entry to the push of the
\* request (the slot is granted) or to the await of sleep(waitTime).
slotSegment(c) ==
    LET kept     == evict(requests)
        waitTime == windowMs - oldestAge(kept) + slotBuffer
    IN  IF Len(kept) >= maxRequests /\ waitTime > 0
        THEN /\ requests' = kept
             /\ waiters' = [waiters EXCEPT ![c] = [pc |-> "sleeping", sleep |-> waitTime]]
             /\ UNCHANGED grantAges
        ELSE /\ requests' = Append(kept, 0)
             /\ grantAges' = Append(grantAges, 0)
             /\ waiters' = [waiters EXCEPT ![c] = [pc |-> "granted", sleep |-> 0]]

LimiterInit ==
    /\ requests = << >>
    /\ grantAges = << >>
    /\ waiters = [c \in LimiterCallers |-> [pc |-> "idle", sleep |-> 0]]
    /\ signals = << >>
    /\ signal_targets = << >>
    /\ signal_wallets = << >>
    /\ marketPrice = << >>
    /\ sweeps = 0
    /\ wallet_positions = {}
    /\ ingested_events = {}
    /\ signalQueue = << >>
    /\ pendingEvents = {}
    /\ validPositions = << >>
    /\ walletPositions = {}
    /\ clearinghouse = << >>
    /\ userFills = << >>
    /\ now = 0
    /\ polls = 0
    /\ MonitorOutIdle
    /\ ingestFault = "none"
    /\ FaultIdle
    /\ BreakerIdle
    /\ ConfigDefault
    /\ RetryIdle
    /\ PerformanceIdle
    /\ NotifierIdle
    /\ RaceIdle

LimiterUnchanged ==
    /\ UNCHANGED <<monitorVars, monitorOut, ingestVars>>
    /\ UNCHANGED <<signal_wallets, pendingEvents, collapseVars>>
    /\ UNCHANGED <<ingestFault, perfVars, faultVars, breakerVars, configVars, retryVars, notifierVars, raceVars>>

\* Caller c calls waitForSlot: its first call, or a further call after a
\* slot was granted to it.
waitForSlot(c) ==
    /\ waiters[c].pc \in {"idle", "granted"}
    /\ slotSegment(c)
    /\ LimiterUnchanged

\* The sleep of caller c has ended: the recursive call of waitForSlot.
waitForSlotAgain(c) ==
    /\ waiters[c].pc = "sleeping"
    /\ waiters[c].sleep = 0
    /\ slotSegment(c)
    /\ LimiterUnchanged

\* slotBuffer milliseconds pass: every recorded timestamp is that much older
\* (an age of windowMs stands for every greater age) and every sleep that
\* much shorter.  A timer that is due may still fire later.
limiterTick ==
    /\ requests' = [i \in DOMAIN requests |->
                        IF requests[i] + slotBuffer < windowMs
                        THEN requests[i] + slotBuffer ELSE windowMs]
    /\ grantAges' = SelectSeq([i \in DOMAIN grantAges |-> grantAges[i] + slotBuffer],
                              LAMBDA age : age < windowMs)
    /\ waiters' = [c \in LimiterCallers |->
                       [waiters[c] EXCEPT !.sleep = Max(@ - slotBuffer, 0)]]
    /\ LimiterUnchanged

LimiterNext ==
    \/ \E c \in LimiterCallers : waitForSlot(c)
    \/ \E c \in LimiterCallers : waitForSlotAgain(c)
    \/ limiterTick

SpecLimiter == LimiterInit /\ [][LimiterNext]_vars

\* Time passes, and a caller whose sleep has ended is resumed.
SpecLimiterLive ==
    /\ SpecLimiter
    /\ WF_vars(limiterTick)
    /\ \A c \in LimiterCallers : WF_vars(waitForSlotAgain(c))

(***************************************************************************)
(* createCircuitBreaker (shared/utils.ts): callers of execute on one       *)
(* breaker; the operation of a caller runs between its entry and its end.  *)
(***************************************************************************)

\* The default arguments of createCircuitBreaker.
failureThreshold == 5
resetTimeoutMs == 60000

\* Time passes in steps of the default timeout of fetchWithTimeout, up to
\* MaxBreakerClock.
breakerStep == 10000
MaxBreakerClock == 120000

\* The concurrent callers of execute.
BreakerCallers == {"p", "q"}

\* execute, from its entry to the await of the operation or to the throw of
\* 'Circuit breaker is OPEN': the breaker after it, and whether the
\* operation is invoked.
executeEntry(b, t) ==
    LET reset == b.state = "OPEN" /\ t - b.lastFailureTime > resetTimeoutMs
        b1    == IF reset THEN [b EXCEPT !.state = "HALF_OPEN", !.failures = 0] ELSE b
    IN  [breaker |-> b1, invoked |-> b1.state # "OPEN"]

\* execute after the operation resolved.
executeSuccess(b) ==
    IF b.state = "HALF_OPEN" THEN [b EXCEPT !.state = "CLOSED", !.failures = 0] ELSE b

\* execute after the operation rejected: the catch block, t being the
\* Date.now() taken at the entry of this call.
executeCatch(b, t) ==
    LET failures == b.failures + 1
    IN  [state           |-> IF failures >= failureThreshold THEN "OPEN" ELSE b.state,
         failures        |-> failures,
         lastFailureTime |-> t]

BreakerInit ==
    /\ breaker = [state |-> "CLOSED", failures |-> 0, lastFailureTime |-> 0]
    /\ executions = [c \in BreakerCallers |-> [pc |-> "idle", entered |-> 0]]
    /\ failedAt = 0
    /\ now = breakerStep
    /\ signals = << >>
    /\ signal_targets = << >>
    /\ signal_wallets = << >>
    /\ marketPrice = << >>
    /\ sweeps = 0
    /\ wallet_positions = {}
    /\ ingested_events = {}
    /\ signalQueue = << >>
    /\ pendingEvents = {}
    /\ validPositions = << >>
    /\ walletPositions = {}
    /\ clearinghouse = << >>
    /\ userFills = << >>
    /\ polls = 0
    /\ MonitorOutIdle
    /\ ingestFault = "none"
    /\ FaultIdle
    /\ LimiterIdle
    /\ ConfigDefault
    /\ RetryIdle
    /\ PerformanceIdle
    /\ NotifierIdle
    /\ RaceIdle

BreakerUnchanged ==
    /\ UNCHANGED <<monitorVars, monitorOut, wallet_positions, ingested_events,
                   signalQueue, clearinghouse, userFills, polls>>
    /\ UNCHANGED <<signal_wallets, pendingEvents, collapseVars>>
    /\ UNCHANGED <<ingestFault, perfVars, faultVars, limiterVars, configVars, retryVars,
                   notifierVars, raceVars>>

\* Caller c calls execute: it is rejected, or its operation starts.
execute(c) ==
    /\ executions[c].pc # "running"
    /\ LET entry == executeEntry(breaker, now)
       IN  /\ breaker' = entry.breaker
           /\ executions' = [executions EXCEPT ![c] =
                                 IF entry.invoked THEN [pc |-> "running", entered |-> now]
                                 ELSE [pc |-> "rejected", entered |-> 0]]
    /\ UNCHANGED <<now, failedAt>>
    /\ BreakerUnchanged

\* The operation of caller c resolves.
operationResolves(c) ==
    /\ executions[c].pc = "running"
    /\ breaker' = executeSuccess(breaker)
    /\ executions' = [executions EXCEPT ![c] = [pc |-> "returned", entered |-> 0]]
    /\ UNCHANGED <<now, failedAt>>
    /\ BreakerUnchanged

\* The operation of caller c rejects.
operationRejects(c) ==
    /\ executions[c].pc = "running"
    /\ breaker' = executeCatch(breaker, executions[c].entered)
    /\ executions' = [executions EXCEPT ![c] = [pc |-> "threw", entered |-> 0]]
    /\ failedAt' = now
    /\ UNCHANGED now
    /\ BreakerUnchanged

breakerTick ==
    /\ now + breakerStep <= MaxBreakerClock
    /\ now' = now + breakerStep
    /\ UNCHANGED <<breaker, executions, failedAt>>
    /\ BreakerUnchanged

BreakerNext ==
    \/ \E c \in BreakerCallers : execute(c)
    \/ \E c \in BreakerCallers : operationResolves(c)
    \/ \E c \in BreakerCallers : operationRejects(c)
    \/ breakerTick

SpecBreaker == BreakerInit /\ [][BreakerNext]_vars

(***************************************************************************)
(* The config table (shared/database.ts) and its validation rules          *)
(* (shared/validation.ts).  A value is an integer, or NonNumeric for a     *)
(* string that is not a number; the table keeps it as a text.              *)
(***************************************************************************)

\* The keys of the config table the validation rules bound.
ConfigKeys == {"wallet_count", "time_window_min", "poll_interval_sec",
               "required_leverage_min"}

\* The values an update may carry.
ConfigInputs == {0 - 5, 0, 1, 30, 50, 301, NonNumeric}

\* String(value): the decimal text of a number, the string itself otherwise.
String(value) ==
    IF value = NonNumeric THEN << "f", "a", "s", "t" >>
    ELSE IF value < 0 THEN << "-" >> \o Decimal(0 - value)
    ELSE Decimal(value)

IsDigits(text) ==
    /\ text # << >>
    /\ \A i \in DOMAIN text : \E d \in DOMAIN DigitChars : DigitChars[d] = text[i]

\* The number a text of decimal digits denotes.
RECURSIVE DigitsValue(_)
DigitsValue(text) ==
    IF text = << >> THEN 0
    ELSE 10 * DigitsValue(SubSeq(text, 1, Len(text) - 1))
         + (CHOOSE d \in 0..9 : DigitChars[d + 1] = text[Len(text)])

\* Number(text): the number the text denotes, NaN when it denotes none.
Number(text) ==
    IF IsDigits(text) THEN DigitsValue(text)
    ELSE IF text # << >> /\ Head(text) = "-" /\ IsDigits(Tail(text))
    THEN 0 - DigitsValue(Tail(text))
    ELSE NaN

\* Number.isInteger
IsInteger(value) == value \notin {NaN, NonNumeric, Missing}

\* validateConfig({[key]: value}).isValid
validateConfig(key, value) ==
    CASE key = "wallet_count" ->
             IsInteger(value) /\ ~(value < 1) /\ ~(value > 50)
      [] key = "time_window_min" ->
             IsInteger(value) /\ ~(value < 1) /\ ~(value > 60)
      [] key = "required_leverage_min" ->
             IsInteger(value) /\ value >= 1 /\ value <= 100
      [] key = "poll_interval_sec" ->
             IsInteger(value) /\ ~(value < 30) /\ ~(value > 300)

\* The value getConfig gives for a row: the number its text denotes, the
\* text itself when it denotes none, and the default when that is falsy.
getConfigValue(text, default) ==
    LET value == IF Number(text) # NaN THEN Number(text) ELSE NonNumeric
    IN  IF value = 0 THEN default ELSE value

\* The rows migration 0002 inserts.
ConfigInit ==
    /\ configRows = [key \in ConfigKeys |->
                       CASE key = "wallet_count" -> String(5)
                         [] key = "time_window_min" -> String(10)
                         [] key = "poll_interval_sec" -> String(60)
                         [] key = "required_leverage_min" -> String(1)]
    /\ config = Config
    /\ trades = 0
    /\ now = 0
    /\ signals = << >>
    /\ signal_targets = << >>
    /\ signal_wallets = << >>
    /\ marketPrice = << >>
    /\ sweeps = 0
    /\ wallet_positions = {}
    /\ ingested_events = {}
    /\ signalQueue = << >>
    /\ pendingEvents = {}
    /\ validPositions = << >>
    /\ walletPositions = {}
    /\ clearinghouse = << >>
    /\ userFills = << >>
    /\ polls = 0
    /\ MonitorOutIdle
    /\ ingestFault = "none"
    /\ FaultIdle
    /\ BreakerIdle
    /\ LimiterIdle
    /\ RetryIdle
    /\ PerformanceIdle
    /\ NotifierIdle
    /\ RaceIdle

\* updateConfig(key, value): INSERT OR REPLACE INTO config of the serialised
\* value; getConfig returns the new row from then on.
updateConfig(key, value) ==
    /\ configRows' = [configRows EXCEPT ![key] = String(value)]
    /\ config' = IF key = "required_leverage_min"
                 THEN [config EXCEPT !.required_leverage_min = getConfigValue(String(value), 1)]
                 ELSE config
    /\ UNCHANGED <<trades, monitorVars, monitorOut, ingestVars>>
    /\ UNCHANGED <<signal_wallets, pendingEvents, collapseVars>>
    /\ UNCHANGED <<ingestFault, perfVars, faultVars, breakerVars, limiterVars, retryVars, notifierVars, raceVars>>

ConfigNext == \E key \in ConfigKeys, value \in ConfigInputs : updateConfig(key, value)

SpecConfig == ConfigInit /\ [][ConfigNext]_vars

(***************************************************************************)
(* Properties of the Price Monitor (specification Spec)                    *)
(***************************************************************************)

\* C1: a sweep at price p moves an OPEN LONG signal with reference price R
\* and stop-loss percent s to SL_HIT if and only if p <= R * (1 + s/100); with
\* R = 2450.50 and s = -2.5 the price 2388.00 gives SL_HIT and 2400.00 does not.
C1_LongStopLossIff ==
    [][\A id \in DOMAIN signals :
          LET s == signals[id]
              p == marketPrice'[s.pair]
          IN  (s.type = "LONG" /\ s.status = "OPEN" /\ p # NoPrice)
              => /\ (signals'[id].status = "SL_HIT")
                        <=> (p * 1000 <= s.entry_price * (1000 + s.stop_loss))
                 /\ (s.entry_price = 245050 /\ s.stop_loss = -25 /\ p = 238800)
                        => signals'[id].status = "SL_HIT"
                 /\ (s.entry_price = 245050 /\ s.stop_loss = -25 /\ p = 240000)
                        => signals'[id].status # "SL_HIT"]_vars

\* The LONG signal at 2450.50 was swept once, at 2388.00, and is stopped.
C1_Witness ==
    /\ sweeps = 1
    /\ marketPrice["ETH"] = 238800
    /\ signals[1].type = "LONG"
    /\ signals[1].status = "SL_HIT"

\* C2: the stop price of a SHORT signal lies strictly above its reference
\* price, and a sweep at a price at or below the reference price never moves
\* an OPEN SHORT signal to SL_HIT.
C2_ShortStopAboveReference ==
    [][\A id \in DOMAIN signals :
          LET s == signals[id]
              p == marketPrice'[s.pair]
              levels == calculatePriceLevels(s.entry_price, s.stop_loss, s.targets, s.type)
          IN  (s.type = "SHORT" /\ s.status = "OPEN" /\ p # NoPrice)
              => /\ levels.stopLossPrice > Level(s.entry_price)
                 /\ (p <= s.entry_price => signals'[id].status # "SL_HIT")]_vars

\* C3: a PARTIAL_TP signal is evaluated by a later sweep like an OPEN one: a
\* stop-loss crossing moves it to SL_HIT, otherwise every rung the price has
\* reached is marked and the signal is TP_HIT once all rungs are marked; the
\* LONG signal at 100.00 with rungs 2.0/3.5/5.0 swept at 106.00 ends TP_HIT.
C3_PartialTpReevaluated ==
    [][\A id \in DOMAIN signals :
          LET s == signals[id]
              p == marketPrice'[s.pair]
              levels == calculatePriceLevels(s.entry_price, s.stop_loss, s.targets, s.type)
              reached(i) == IF s.type = "LONG"
                            THEN Level(p) >= levels.targetPrices[i]
                            ELSE Level(p) <= levels.targetPrices[i]
          IN  (s.status = "PARTIAL_TP" /\ p # NoPrice)
              => IF isStopLossHit(Level(p), levels.stopLossPrice, s.type)
                 THEN signals'[id].status = "SL_HIT"
                 ELSE /\ \A i \in DOMAIN s.targets : reached(i) => signal_targets'[id][i]
                      /\ (\A i \in DOMAIN s.targets : signal_targets'[id][i])
                            => signals'[id].status = "TP_HIT"
                      /\ (s.type = "LONG" /\ s.entry_price = 10000 /\ p = 10600)
                            => signals'[id].status = "TP_HIT"]_vars

\* C4: once a signal is SL_HIT, no later sweep at any price changes its
\* status or marks any of its targets.
C4_StopLossTerminal ==
    [][\A id \in DOMAIN signals :
          signals[id].status = "SL_HIT"
          => /\ signals'[id].status = "SL_HIT"
             /\ signal_targets'[id] = signal_targets[id]]_vars

\* The SHORT signal at 2450.50 was stopped while the LONG one of its pair
\* stayed open, and a later sweep fetched 2388.00 for the pair, a price beyond
\* its only rung: it is still SL_HIT with no rung marked.
C4_Witness ==
    /\ sweeps >= 2
    /\ priceQueries["ETH"] # << >>
    /\ marketPrice["ETH"] = 238800
    /\ signals[4].type = "SHORT"
    /\ signals[4].status = "SL_HIT"
    /\ \A i \in DOMAIN signal_targets[4] : ~signal_targets[4][i]

(***************************************************************************)
(* Properties of the Consensus Signal Detector                             *)
(***************************************************************************)

MarketRows(m) ==
    {r \in wallet_positions : r.pair = m[1] /\ r.position_type = m[2]}

MarketSignals(m) ==
    {id \in DOMAIN signals : signals[id].pair = m[1] /\ signals[id].type = m[2]}

\* C5: once the position-open events of N distinct wallets for one pair and
\* direction, all inside the consensus window, have been evaluated, a signal
\* for that pair and direction exists if and only if N >= the quorum, and
\* there is exactly one, whatever the order of arrival.
C5_QuorumExactlyOnce ==
    \A m \in DetectorMarkets :
        LET rows == MarketRows(m)
            N    == Cardinality({r.wallet_address : r \in rows})
        IN  (/\ \A r \in rows : r.entry_timestamp >= now - time_window_min * 60 * 1000
             /\ \A e \in pendingEvents : <<e.pair, e.position_type>> # m)
            => /\ (MarketSignals(m) # {}) <=> (N >= wallet_count)
               /\ Cardinality(MarketSignals(m)) <= 1

\* C6: the collapse keeps exactly one entry per wallet of the list, so that
\* each wallet counts once toward the quorum, and the entry kept for a wallet
\* is the one of its entries with the greatest entry timestamp, in whatever
\* order the positions are iterated.
C6_OneEntryPerWalletMostRecent ==
    walletPositions # {}
    => LET listed == {validPositions[i] : i \in DOMAIN validPositions}
           wallets == {r.wallet_address : r \in listed}
       IN  /\ walletPositions \subseteq listed
           /\ Cardinality(walletPositions) = Cardinality(wallets)
           /\ \A w \in wallets :
                Cardinality({k \in walletPositions : k.wallet_address = w}) = 1
           /\ \A k \in walletPositions : \A r \in listed :
                r.wallet_address = k.wallet_address
                => r.entry_timestamp <= k.entry_timestamp

\* The loop has run over a list in which a wallet has two entries, the more
\* recent one listed first, together with another wallet.
C6_Witness ==
    /\ walletPositions # {}
    /\ Cardinality(walletPositions) = 2
    /\ \E i, j \in DOMAIN validPositions :
        /\ i < j
        /\ validPositions[i].wallet_address = validPositions[j].wallet_address
        /\ validPositions[i].entry_timestamp > validPositions[j].entry_timestamp
        /\ validPositions[i] \in walletPositions

C7_OtherMarketNotSuppressed ==
    /\ pendingEvents = {}
    /\ Len(signals) = 2
    /\ signals[1].pair # signals[2].pair
    /\ Abs(signals[1].created_at - signals[2].created_at) < cooldown_min * 60 * 1000
    /\ signals[1].created_at # signals[2].created_at

(***************************************************************************)
(* Properties of the Position Ingestor (specification SpecIngest)          *)
(***************************************************************************)

\* The direction of a snapshot entry.
DirectionOf(a) == IF a.szi > 0 THEN "LONG" ELSE "SHORT"

\* The snapshot entry is an open position that passes the configured filters.
Accepted(a) ==
    /\ a.szi # 0
    /\ a.coin \notin config.ignored_pairs
    /\ (config.monitored_pairs = {} \/ a.coin \in config.monitored_pairs)
    /\ a.entryPx * Abs(a.szi) >= Dollars(config.min_trade_size)
    /\ a.leverage >= config.required_leverage_min

\* The accepted snapshot entries of every wallet.
OpenPositions ==
    {x \in UNION {{<<w, clearinghouse[w][i]>> : i \in DOMAIN clearinghouse[w]} :
                     w \in DOMAIN clearinghouse} : Accepted(x[2])}

StoredFor(w, a) ==
    {r \in wallet_positions :
        r.wallet_address = w /\ r.pair = a.coin /\ r.position_type = DirectionOf(a)}

PublishedFor(w, a) ==
    {i \in DOMAIN signalQueue :
        /\ signalQueue[i].wallet_address = w
        /\ signalQueue[i].pair = a.coin
        /\ signalQueue[i].position_type = DirectionOf(a)}

\* C8: after the same snapshot has been processed twice (two ingestion
\* cycles), every accepted entry has exactly one stored Position and at most
\* one published position-open event.
C8_ReplayStoresOnce ==
    polls >= 2
    => \A x \in OpenPositions :
          /\ Cardinality(StoredFor(x[1], x[2])) = 1
          /\ Cardinality(PublishedFor(x[1], x[2])) <= 1

\* The entry timestamp processPosition gives an entry: the time of the most
\* recent matching fill, or the current time.
EntryTimeOf(w, a) ==
    LET fill == findRelevantFill(userFills[w], a.coin, DirectionOf(a))
    IN  IF fill # << >> THEN fill[1].time ELSE now

\* C9: the idempotency keys of two position-open events are equal exactly
\* when the events agree on wallet, instrument, direction and entry minute.
C9_KeyOfFourFields ==
    \A x, y \in OpenPositions :
        (generateEventId(x[1], x[2].coin, EntryTimeOf(x[1], x[2]), DirectionOf(x[2]))
            = generateEventId(y[1], y[2].coin, EntryTimeOf(y[1], y[2]), DirectionOf(y[2])))
        <=> /\ x[1] = y[1]
            /\ x[2].coin = y[2].coin
            /\ DirectionOf(x[2]) = DirectionOf(y[2])
            /\ EntryTimeOf(x[1], x[2]) \div 60000 = EntryTimeOf(y[1], y[2]) \div 60000

\* C10: while the wallets keep the same open positions and fills, over any
\* number of ingestion cycles at most one position-open event is published
\* and at most one Position is stored for each open position, with or
\* without a matching fill.
C10_OneEventPerOpenPosition ==
    \A x \in OpenPositions :
        /\ Cardinality(PublishedFor(x[1], x[2])) <= 1
        /\ Cardinality(StoredFor(x[1], x[2])) <= 1

(***************************************************************************)
(* Properties of the performance calculation (SpecPerformance)             *)
(***************************************************************************)

\* The directional trade PnL of the close, in the unit of metrics.pnl.
TradePnL ==
    (IF trade.signalType = "LONG" THEN 1 ELSE 0 - 1)
        * (trade.exitPrice - trade.entryPrice) * trade.positionSize * RateScale

\* C11: with zero funding calculatePnL returns (exit - entry) * size for a
\* LONG and the negation of that for a SHORT; a SHORT entered at 42100.00 and
\* closed at 41000.00 with size 1 yields +1100.00, the LONG yields -1100.00.
C11_ZeroFundingPnL ==
    (metrics # << >> /\ trade.fundingRate = 0)
    => /\ trade.signalType = "LONG"
            => metrics.pnl = (trade.exitPrice - trade.entryPrice) * trade.positionSize * RateScale
       /\ trade.signalType = "SHORT"
            => metrics.pnl = 0 - (trade.exitPrice - trade.entryPrice) * trade.positionSize * RateScale
       /\ (trade.entryPrice = 42100 /\ trade.exitPrice = 41000 /\ trade.positionSize = 1)
            => metrics.pnl = (IF trade.signalType = "SHORT" THEN 1100 ELSE 0 - 1100) * RateScale

\* The SHORT at 42100.00 closed at 41000.00, size 1, zero funding: +1100.00.
C11_Witness ==
    /\ metrics # << >>
    /\ trade.signalType = "SHORT"
    /\ trade.entryPrice = 42100
    /\ trade.exitPrice = 41000
    /\ trade.positionSize = 1
    /\ trade.fundingRate = 0
    /\ metrics.pnl = 1100 * RateScale

\* C12: funding is always a cost: calculatePnL returns the directional trade
\* PnL minus |fundingRate * size * entryPrice * ceil(durationHours / 8)|, so
\* the result is never greater than the directional trade PnL.
C12_FundingAlwaysCost ==
    metrics # << >>
    => LET periods == (trade.durationHours + 7) \div 8
       IN  /\ metrics.pnl = TradePnL - Abs(trade.fundingRate * trade.positionSize
                                           * trade.entryPrice * periods * 8)
           /\ metrics.pnl <= TradePnL

\* C13: determineOutcome classifies a close by its status whatever the PnL:
\* SL_HIT is a LOSS, TP_HIT a WIN, PARTIAL_TP a PARTIAL; for any other status
\* the outcome is WIN when the PnL is positive and LOSS otherwise.
C13_OutcomeByStatus ==
    metrics # << >>
    => metrics.outcome =
         CASE trade.status = "SL_HIT"     -> "LOSS"
           [] trade.status = "TP_HIT"     -> "WIN"
           [] trade.status = "PARTIAL_TP" -> "PARTIAL"
           [] OTHER -> IF metrics.pnl > 0 THEN "WIN" ELSE "LOSS"

\* A close by stop-loss whose PnL is positive is a LOSS all the same.
C13_Witness ==
    /\ metrics # << >>
    /\ trade.status = "SL_HIT"
    /\ metrics.pnl > 0
    /\ metrics.outcome = "LOSS"

(***************************************************************************)
(* Properties of the Position Ingestor under failing calls (SpecIngest)    *)
(***************************************************************************)

\* C18: the Position row and its idempotency key are persisted both or
\* neither: a cycle never records a key without a Position carrying it, and
\* never stores a Position without recording its key, whichever call fails.
C18_PositionAndKeyTogether ==
    [][/\ \A e \in ingested_events' \ ingested_events :
            \E r \in wallet_positions' : r.open_event_id = e.event_id
       /\ \A r \in wallet_positions' :
            r.last_updated = now'
            => \E e \in ingested_events' : e.event_id = r.open_event_id]_vars

\* The events of the queue q that are for the snapshot entry a of wallet w.
PublishedIn(q, w, a) ==
    {i \in DOMAIN q :
        /\ q[i].wallet_address = w
        /\ q[i].pair = a.coin
        /\ q[i].position_type = DirectionOf(a)}

\* C19: a position-open event is not lost: when a Position and its key are
\* persisted but its event was not published (the send failed) and the wallet
\* still holds the position, a later ingestion cycle in which no call fails
\* publishes the event.
C19_EventRedelivered ==
    [][\A x \in OpenPositions :
          (/\ \E r \in StoredFor(x[1], x[2]) :
                 \E e \in ingested_events : e.event_id = r.open_event_id
           /\ PublishedIn(signalQueue, x[1], x[2]) = {}
           /\ ingestFault' = "none")
          => PublishedIn(signalQueue', x[1], x[2]) # {}]_vars

\* A provider result that is no price: null, or a call that threw.
NoAnswer == {NoPrice, ProviderFailed}

\* C16: for every instrument a sweep fetches, the primary provider is asked
\* first, and whenever the primary returns null or fails, the secondary
\* provider is asked before the instrument is given up.
C16_SecondaryQueriedOnFailure ==
    \A p \in DOMAIN priceQueries :
        priceQueries[p] # << >> =>
            /\ priceQueries[p][1].provider = "hyperliquid"
            /\ priceQueries[p][1].result \in NoAnswer =>
                  /\ Len(priceQueries[p]) >= 2
                  /\ priceQueries[p][2].provider = "kucoin"

\* The pairs the sweep that has just run asked a price for and got none.
Unpriced(queries) ==
    {p \in DOMAIN queries :
        /\ queries[p] # << >>
        /\ \A i \in DOMAIN queries[p] : queries[p][i].result \in NoAnswer}

\* The price the sweep that has just run got for a pair it asked about.
Priced(queries, p) == queries[p][Len(queries[p])].result

\* C17: a sweep that gets no price for an instrument leaves every signal of
\* that instrument as it was (status, hit flags, no performance record, no
\* notification), and still evaluates the open signals of every instrument
\* it does get a price for.
C17_NoPriceLeavesSignals ==
    [][ \A p \in Unpriced(priceQueries') :
          /\ \A id \in DOMAIN signals :
                signals[id].pair = p =>
                    /\ signals'[id] = signals[id]
                    /\ signal_targets'[id] = signal_targets[id]
                    /\ id \in DOMAIN performance' <=> id \in DOMAIN performance
                    /\ \A n \in BagToSet(notificationQueue') :
                          n.signal_id = id =>
                              CopiesIn(n, notificationQueue') = CopiesIn(n, notificationQueue)
          /\ \A id \in getActiveSignals :
                LET q == signals[id].pair
                IN  (q # p /\ q \notin Unpriced(priceQueries')) =>
                        /\ signals'[id].status =
                              processSignalPriceCheck(id, Priced(priceQueries', q), "none").status
                        /\ signal_targets'[id] =
                              processSignalPriceCheck(id, Priced(priceQueries', q), "none").hits
      ]_vars

\* C17 witness: the first sweep got no price for ETH and left both ETH
\* signals open and unrecorded, while the SOL long was stopped, recorded and
\* notified in the same sweep.
C17_Witness ==
    /\ sweeps = 1
    /\ "ETH" \in Unpriced(priceQueries)
    /\ signals[1].status = "OPEN" /\ signals[4].status = "OPEN"
    /\ \A i \in DOMAIN signal_targets[1] : ~signal_targets[1][i]
    /\ signals[2].pair = "SOL" /\ signals[2].status = "SL_HIT"
    /\ 2 \in DOMAIN performance /\ 1 \notin DOMAIN performance
    /\ BagIn([type |-> "SL_HIT", signal_id |-> 2], notificationQueue)
    /\ \A n \in BagToSet(notificationQueue) : n.signal_id \notin {1, 4}

(***************************************************************************)
(* Properties of the detector under concurrent consumers                   *)
(* (specification SpecDetectorRace)                                        *)
(***************************************************************************)

\* C14: the cooldown check and the signal creation are one atomic step:
\* whenever a consumer creates a signal, no signal of the same pair and
\* direction is in cooldown at that moment, so two overlapping evaluations
\* never both pass the test and both create.
C14_CheckAndCreateAtomic ==
    [][ \A c \in DOMAIN consumers :
          (/\ consumers[c].pc = "checked"
           /\ consumers[c].pass
           /\ Len(signals') = Len(signals) + 1
           /\ consumers'[c].pc = "idle")
          => checkRecentSignal(consumers[c].event.pair,
                               consumers[c].event.position_type,
                               cooldown_min * 60 * 1000) = {}
      ]_vars

(***************************************************************************)
(* Properties of the Price Monitor under overlapping sweeps                *)
(* (specification SpecSweepRace)                                           *)
(***************************************************************************)

\* C15: under overlapping sweeps a signal is never closed by both a stop-loss
\* and a take-profit: once a terminal status (SL_HIT or TP_HIT) is written,
\* no other sweep overwrites that status or marks further rungs.
C15_TerminalNeverOverwritten ==
    [][ \A id \in DOMAIN signals :
          signals[id].status \in {"SL_HIT", "TP_HIT"} =>
              /\ signals'[id].status = signals[id].status
              /\ signal_targets'[id] = signal_targets[id]
      ]_vars

(***************************************************************************)
(* Properties of the Notifier (specification SpecNotifier)                 *)
(***************************************************************************)

\* C20: when the queue handler has run, every message of the batch has
\* received exactly one of ack and retry; a message is acked only if its
\* notification was sent, and a message that was not sent is retried and
\* not acked.
C20_AckOrRetryExactlyOnce ==
    [][ \A i \in DOMAIN batch.messages :
          /\ acked'[i] + retried'[i] = 1
          /\ acked'[i] = 1 => sent'[i]
          /\ ~sent'[i] => (retried'[i] = 1 /\ acked'[i] = 0)
      ]_vars

\* C20 witness: a batch of two handled with a valid environment: the first
\* message was sent (its audit-log INSERT failed) and acked, the second
\* failed to send and was retried.
C20_Witness ==
    /\ batch # << >>
    /\ batch.envValid
    /\ Len(batch.messages) = 2
    /\ batch.messages[1].send = "ok" /\ batch.messages[1].log = "error"
    /\ batch.messages[2].send = "error"
    /\ sent[1] /\ acked[1] = 1 /\ retried[1] = 0
    /\ ~sent[2] /\ acked[2] = 0 /\ retried[2] = 1

(***************************************************************************)
(* Properties of the provider calls (specification SpecRetry)              *)
(***************************************************************************)

\* The failures the specification calls transient: timeout, 5xx, rate limit.
Transient == {TimedOut, 429, 500, 503}

\* The number of responses at the head of a sequence that are transient.
RECURSIVE LeadingTransient(_)
LeadingTransient(responses) ==
    IF responses = << >> \/ Head(responses) \notin Transient THEN 0
    ELSE 1 + LeadingTransient(Tail(responses))

\* C21: a rate-limited response is retried like a timeout or a 5xx: a call
\* goes through every transient failure at the head of the provider's
\* responses, up to the bounded attempt count, sleeping before each retry.
C21_RateLimitRetried ==
    call # << >> =>
        /\ call.attempts = Min(LeadingTransient(upstream) + 1, maxRetries + 1)
        /\ Len(call.delays) = call.attempts - 1

\* The attempt at which withRetry stops: the first that succeeds or throws an
\* ApiError of status below 500, or the last allowed.
StoppingAttempt(responses) ==
    LET stops(i) == LET r == clearinghouseOperation(responses[i])
                    IN  \/ ~r.threw
                        \/ r.apiError /\ r.status # 0 /\ r.status < 500
                        \/ i = maxRetries + 1
    IN  CHOOSE i \in 1..(maxRetries + 1) :
            stops(i) /\ \A j \in 1..(i - 1) : ~stops(j)

\* What a finished call satisfies.
RetryContract ==
    LET n == StoppingAttempt(upstream)
        r == clearinghouseOperation(upstream[n])
    IN  /\ call.attempts <= maxRetries + 1
        /\ call.attempts = n
        /\ call.last = r
        /\ call.result = (IF r.threw THEN "threw" ELSE r.value)
        /\ Len(call.delays) = call.attempts - 1
        /\ \A k \in DOMAIN call.delays :
              /\ call.delays[k] >= 0
              /\ call.delays[k]
                    < Min(baseDelay * Pow(backoffMultiplier, k - 1), maxDelay) + 1000

\* C31: withRetry terminates, having invoked the operation at most
\* maxRetries + 1 times: it stops at the first success and returns its
\* result, stops at once on an ApiError of status below 500 and rethrows
\* it, and otherwise rethrows the last error after the final attempt; the
\* delay slept after failed attempt k - 1 is less than
\* min(baseDelay * backoffMultiplier^(k-1), maxDelay) + 1000.
C31_RetryBoundedAndTerminates ==
    /\ [](call # << >> => RetryContract)
    /\ <>(call # << >>)

\* A call has made all four attempts and rethrown the last error, with the
\* greatest jitter before its last retry.
C31_Witness ==
    /\ call # << >>
    /\ call.attempts = maxRetries + 1
    /\ call.result = "threw"
    /\ call.delays[maxRetries] = 4999

\* A call has returned the result of its third attempt.
C31_ReturnedAfterRetries ==
    /\ call # << >>
    /\ call.attempts = 3
    /\ call.result = "data"

(***************************************************************************)
(* Properties of the take-profit ladder                                    *)
(***************************************************************************)

\* The rungs of signal id, not yet hit, whose target price the price p has
\* reached (LONG: p >= target; SHORT: p <= target).
NewlyReached(id, p) ==
    LET s      == signals[id]
        levels == calculatePriceLevels(s.entry_price, s.stop_loss, s.targets, s.type)
    IN  {i \in DOMAIN s.targets :
            /\ ~signal_targets[id][i]
            /\ IF s.type = "LONG"
               THEN Level(p) >= levels.targetPrices[i]
               ELSE Level(p) <= levels.targetPrices[i]}

\* What C22 requires of a sweep at price p on signal id, given that its
\* stop-loss test is negative.
LadderStep(id, p) ==
    LET s     == signals[id]
        newly == NewlyReached(id, p)
        all   == \A i \in DOMAIN s.targets : signal_targets[id][i] \/ i \in newly
    IN  /\ signal_targets'[id] =
              [i \in DOMAIN s.targets |-> signal_targets[id][i] \/ i \in newly]
        /\ signals'[id].status =
              IF newly = {} THEN s.status
              ELSE IF all THEN "TP_HIT" ELSE "PARTIAL_TP"

\* C22: when the stop-loss is not hit, a sweep marks exactly the not-yet-hit
\* rungs whose target the price has reached, and sets TP_HIT when all rungs
\* are then hit, PARTIAL_TP when some rung was newly hit but not all are hit,
\* and changes nothing when no rung was newly hit; an OPEN signal whose
\* every rung is passed at once is TP_HIT after that one sweep.
C22_LadderMarksReachedRungs ==
    [][\A id \in DOMAIN signals :
          LET s == signals[id]
              p == marketPrice'[s.pair]
              levels == calculatePriceLevels(s.entry_price, s.stop_loss, s.targets, s.type)
          IN  (/\ s.status \in {"OPEN", "PARTIAL_TP"}
               /\ p # NoPrice
               /\ ~isStopLossHit(Level(p), levels.stopLossPrice, s.type))
              => /\ LadderStep(id, p)
                 /\ (s.status = "OPEN" /\ NewlyReached(id, p) = DOMAIN s.targets)
                        => signals'[id].status = "TP_HIT"]_vars

\* The part of C22 that concerns the signals a sweep reads (status OPEN).
C22_OpenSignalsOnly ==
    [][\A id \in DOMAIN signals :
          LET s == signals[id]
              p == marketPrice'[s.pair]
              levels == calculatePriceLevels(s.entry_price, s.stop_loss, s.targets, s.type)
          IN  (/\ s.status = "OPEN"
               /\ p # NoPrice
               /\ ~isStopLossHit(Level(p), levels.stopLossPrice, s.type))
              => LadderStep(id, p)]_vars

\* C23: hit flags are monotone: a rung once marked hit is never set back to
\* not hit, whatever the later sweeps and their prices.
C23_HitFlagsMonotone ==
    [][\A id \in DOMAIN signals :
          \A i \in DOMAIN signal_targets[id] :
              signal_targets[id][i] => signal_targets'[id][i]]_vars

\* C23 witness: the first rung of the SOL long was marked at 103.00, and a
\* sweep that had read the signal as open wrote on it again at 95.00, below
\* the rung: the signal is stopped and the rung is still marked.
C23_Witness ==
    /\ sweepers # << >>
    /\ \A w \in DOMAIN sweepers : sweepers[w].pc = "done"
    /\ signals[2].type = "LONG"
    /\ signals[2].status = "SL_HIT"
    /\ signal_targets[2][1]
    /\ ~signal_targets[2][2]
    /\ BagIn([type |-> "PARTIAL_TP", signal_id |-> 2], notificationQueue)

(***************************************************************************)
(* Properties of a sweep's records and notifications                       *)
(***************************************************************************)

\* A status that closes a signal.
Closing == {"SL_HIT", "TP_HIT"}

\* C24: the Performance Calculator is invoked exactly once for each
\* transition of a signal to SL_HIT or to TP_HIT, and not at all for a
\* transition to PARTIAL_TP or for a signal the sweep leaves as it was; an
\* invocation leaves one record per timeframe (24h, 7d, 30d, all_time), all
\* with the same outcome and PnL.
C24_CalculatorOncePerClose ==
    [][\A id \in DOMAIN signals :
          LET invoked == CallsOf(calculatorCalls', id) - CallsOf(calculatorCalls, id)
          IN  IF signals'[id].status # signals[id].status /\ signals'[id].status \in Closing
              THEN /\ invoked = 1
                   /\ id \in DOMAIN performance'
                   /\ DOMAIN performance'[id] = {"24h", "7d", "30d", "all_time"}
                   /\ \A t1, t2 \in DOMAIN performance'[id] :
                         performance'[id][t1] = performance'[id][t2]
              ELSE /\ invoked = 0
                   /\ id \in DOMAIN performance' <=> id \in DOMAIN performance
                   /\ id \in DOMAIN performance => performance'[id] = performance[id]
      ]_vars

\* C24 witness: one sweep at 2500.00 and 95.00 left the ETH long partially
\* hit with no calculator run, and closed the SOL long (stop) and the SOL
\* short (all rungs) with one run each and four records each.
C24_Witness ==
    /\ sweeps = 1
    /\ signals[1].status = "PARTIAL_TP" /\ CallsOf(calculatorCalls, 1) = 0
    /\ 1 \notin DOMAIN performance
    /\ signals[2].status = "SL_HIT" /\ CallsOf(calculatorCalls, 2) = 1
    /\ signals[3].status = "TP_HIT" /\ CallsOf(calculatorCalls, 3) = 1
    /\ Cardinality(DOMAIN performance[2]) = 4
    /\ performance[2]["24h"].outcome = "LOSS"
    /\ performance[3]["all_time"].outcome = "WIN"

\* The number of notification events in the queue that are about a signal.
NotificationsFor(q, id) ==
    CopiesIn([type |-> "SL_HIT", signal_id |-> id], q)
    + CopiesIn([type |-> "PARTIAL_TP", signal_id |-> id], q)
    + CopiesIn([type |-> "TP_HIT", signal_id |-> id], q)

\* C25: a sweep publishes exactly one notification event for every signal
\* whose state it advanced (status or hit flags changed), of the type of the
\* new status, also when several rungs are hit at once, and none for a
\* signal it left unchanged.
C25_OneNotificationPerAdvance ==
    [][\A id \in DOMAIN signals :
          LET published == NotificationsFor(notificationQueue', id)
                           - NotificationsFor(notificationQueue, id)
          IN  IF signals'[id] # signals[id] \/ signal_targets'[id] # signal_targets[id]
              THEN /\ published = 1
                   /\ CopiesIn([type |-> signals'[id].status, signal_id |-> id],
                               notificationQueue')
                        = CopiesIn([type |-> signals'[id].status, signal_id |-> id],
                                   notificationQueue) + 1
              ELSE published = 0
      ]_vars

\* C25 witness: one sweep at 2450.50 and 106.00 marked the three rungs of
\* the SOL long at once and published one TP_HIT event for it, and left the
\* ETH long unchanged with no event.
C25_Witness ==
    /\ sweeps = 1
    /\ marketPrice["SOL"] = 10600
    /\ signals[2].status = "TP_HIT"
    /\ \A i \in DOMAIN signal_targets[2] : signal_targets[2][i]
    /\ NotificationsFor(notificationQueue, 2) = 1
    /\ BagIn([type |-> "TP_HIT", signal_id |-> 2], notificationQueue)
    /\ signals[1].status = "OPEN"
    /\ NotificationsFor(notificationQueue, 1) = 0

\* C26: a notification send that fails neither blocks nor reverts the
\* progression: every open signal of a priced instrument gets the status and
\* hit flags of its price check, whether or not its send or another
\* signal's send failed in that sweep.
C26_SendFailureKeepsProgress ==
    [][\A id \in DOMAIN signals :
          LET s == signals[id]
              p == marketPrice'[s.pair]
          IN  (s.status = "OPEN" /\ p # NoPrice)
              => /\ signals'[id].status = processSignalPriceCheck(id, p, "none").status
                 /\ signal_targets'[id] = processSignalPriceCheck(id, p, "none").hits
                 /\ id \in sendFailed' =>
                       /\ signals'[id].status # "OPEN"
                       /\ NotificationsFor(notificationQueue', id) = 0
      ]_vars

\* C26 witness: in one sweep the send for the ETH long's stop failed and the
\* send for the SOL long's take-profit failed; both new states are stored,
\* the SOL short was still checked and closed, and its event was published.
C26_Witness ==
    /\ sweeps = 1
    /\ sendFailed = {1, 2}
    /\ signals[1].status = "SL_HIT"
    /\ signals[2].status = "PARTIAL_TP" /\ signal_targets[2][1]
    /\ NotificationsFor(notificationQueue, 1) = 0
    /\ NotificationsFor(notificationQueue, 2) = 0
    /\ 1 \in DOMAIN performance
    /\ signals[3].status = "SL_HIT"
    /\ NotificationsFor(notificationQueue, 3) = 1

(***************************************************************************)
(* Properties of the ingestion boundary (specification SpecBoundary)       *)
(***************************************************************************)

\* The numbers a snapshot entry spells.
SizeOf(a) == parseFloat(OrElse(a.szi, 0))

PriceOf(a) == parseFloat(OrElse(a.entryPx, 0))

LeverageOf(a) == parseInt(OrElse(a.leverage, 1))

Numeric(a) == SizeOf(a) # NaN /\ PriceOf(a) # NaN /\ LeverageOf(a) # NaN

\* The five filters: size zero, instrument on the denylist, instrument
\* missing from a non-empty allowlist, notional below the minimum, leverage
\* below the minimum.
FilteredOut(a) ==
    \/ SizeOf(a) = 0
    \/ a.coin \in config.ignored_pairs
    \/ config.monitored_pairs # {} /\ a.coin \notin config.monitored_pairs
    \/ PriceOf(a) * Abs(SizeOf(a)) < Dollars(config.min_trade_size)
    \/ LeverageOf(a) < config.required_leverage_min

RowsOf(w, coin) ==
    {r \in wallet_positions : r.wallet_address = w /\ r.pair = coin}

EventsOf(w, coin) ==
    {i \in DOMAIN signalQueue :
        signalQueue[i].wallet_address = w /\ signalQueue[i].pair = coin}

C27_AcceptedStored ==
    /\ polls >= 1
    /\ \E w \in DOMAIN clearinghouse : \E i \in DOMAIN clearinghouse[w] :
          LET a == clearinghouse[w][i]
          IN  Numeric(a) /\ ~FilteredOut(a) /\ RowsOf(w, a.coin) # {}
                         /\ EventsOf(w, a.coin) # {}

\* A finite number greater than 0.
FinitePositive(x) == x # NaN /\ x > 0

C28_StoredPricePositive ==
    polls >= 1 => \A r \in wallet_positions : r.entry_price = NaN \/ r.entry_price > 0

\* The stored prices alone: violated by a payload whose price is no number.
C28_StoredPriceIsNumber ==
    polls >= 1 => \A r \in wallet_positions : r.entry_price # NaN

\* The positions in a fill list of the fills of the instrument whose side
\* matches the direction: B for LONG, anything else for SHORT.
MatchingFills(fills, pair, direction) ==
    {i \in DOMAIN fills :
        /\ fills[i].coin = pair
        /\ (fills[i].side = "B") <=> (direction = "LONG")}

\* C29: for every fill list, instrument and direction, findRelevantFill
\* returns null when no fill matches and otherwise a matching fill of the
\* greatest time, whatever the order of the list; and a Position stored for
\* an entry that has a matching fill carries that fill's time and price as
\* entry timestamp and entry price.
C29_MostRecentFillGivesEntry ==
    /\ \A w \in DOMAIN userFills, pair \in {"ETH", "BTC", "DOGE"},
          direction \in {"LONG", "SHORT"} :
          LET fills    == userFills[w]
              matching == MatchingFills(fills, pair, direction)
              found    == findRelevantFill(fills, pair, direction)
          IN  /\ matching = {} => found = << >>
              /\ matching # {}
                 => /\ found # << >>
                    /\ \E i \in matching : found[1] = fills[i]
                    /\ \A i \in matching : fills[i].time <= found[1].time
    /\ \A r \in wallet_positions :
          LET fills    == userFills[r.wallet_address]
              matching == MatchingFills(fills, r.pair, r.position_type)
          IN  matching # {}
              => \E i \in matching :
                    /\ \A j \in matching : fills[j].time <= fills[i].time
                    /\ r.entry_timestamp = fills[i].time
                    /\ r.entry_price = parseFloat(fills[i].px)

\* A Position is stored from a fill list whose first matching fill is not
\* the most recent one; it carries the most recent fill's time, and a price
\* that is not the snapshot's average entry price.
C29_Witness ==
    /\ polls >= 1
    /\ \E r \in wallet_positions :
          LET fills    == userFills[r.wallet_address]
              matching == MatchingFills(fills, r.pair, r.position_type)
          IN  /\ \E i, j \in matching : i < j /\ fills[i].time < fills[j].time
              /\ \A j \in matching : fills[j].time <= r.entry_timestamp
              /\ \A k \in DOMAIN clearinghouse[r.wallet_address] :
                    r.entry_price # PriceOf(clearinghouse[r.wallet_address][k])

\* A Position is stored for an entry without a matching fill: it carries the
\* snapshot's entry price and the time of the ingestion cycle.
C29_NoFillKeepsSnapshotPrice ==
    \A r \in wallet_positions :
        MatchingFills(userFills[r.wallet_address], r.pair, r.position_type) = {}
        => /\ \E k \in DOMAIN clearinghouse[r.wallet_address] :
                 r.entry_price = PriceOf(clearinghouse[r.wallet_address][k])
           /\ r.entry_timestamp = r.last_updated

(***************************************************************************)
(* Properties of changing exposure (specification SpecExposure)            *)
(***************************************************************************)

\* The wallet's exposure for the instrument of a stored Position is zero
\* (an entry of size zero, or no entry) or has the opposite direction.
ExposureGone(r) ==
    \A i \in DOMAIN clearinghouse[r.wallet_address] :
        LET a == clearinghouse[r.wallet_address][i]
        IN  a.coin = r.pair => (SizeOf(a) = 0 \/ DirectionOf(a) # r.position_type)

\* The Position is among the positions of the consensus window.
InConsensusWindow(r) ==
    \E results \in getRecentPositions(r.pair, r.position_type,
                                       time_window_min * 60 * 1000) :
        \E i \in DOMAIN results : results[i] = r

\* C30: after an ingestion cycle, a stored Position whose wallet's exposure
\* for the instrument has reached zero or reversed direction is superseded:
\* it is not returned among the positions of the consensus window.
C30_SupersededLeavesWindow ==
    [][polls' = polls + 1
       => \A r \in wallet_positions' :
             ExposureGone(r)' => ~InConsensusWindow(r)']_vars

\* The Position of a wallet that has closed or reversed its exposure is still
\* returned for the consensus window after the next ingestion cycle.
C30_ClosedStillCounted ==
    /\ polls = 2
    /\ trades = 1
    /\ \E r \in wallet_positions : ExposureGone(r) /\ InConsensusWindow(r)

(***************************************************************************)
(* Properties of the rate limiter (specifications SpecLimiter,             *)
(* SpecLimiterLive)                                                        *)
(***************************************************************************)

\* At most maxRequests slots were granted in the last windowMs, at every
\* moment: no time span shorter than windowMs holds more grants.
C32_AtMostMaxPerWindow == Len(grantAges) <= maxRequests

\* C32: under every interleaving of the callers, at most maxRequests slots
\* are granted within any time span shorter than windowMs, and every caller
\* that waits for a slot is eventually granted one.
C32_BoundedAndEventuallyGranted ==
    /\ [](Len(grantAges) <= maxRequests)
    /\ \A c \in LimiterCallers :
          (waiters[c].pc = "sleeping") ~> (waiters[c].pc = "granted")

\* C33: every run of waitForSlot's body leaves no recorded timestamp that is
\* windowMs or more old, and the recorded list never holds more than
\* maxRequests timestamps.
C33_SelfPruning ==
    /\ [](Len(requests) <= maxRequests)
    /\ [][(\E c \in LimiterCallers : waitForSlot(c) \/ waitForSlotAgain(c))
           => \A i \in DOMAIN requests' : requests'[i] < windowMs]_vars

\* Every caller has been granted a slot, and the call of the last has
\* evicted the timestamps of the others: only its own is recorded.
C33_Witness ==
    /\ requests = << 0 >>
    /\ \A c \in LimiterCallers : waiters[c].pc = "granted"

(***************************************************************************)
(* Properties of the circuit breaker (specification SpecBreaker)           *)
(***************************************************************************)

\* The failure count has reached the threshold only in an OPEN breaker.
OpenAtThreshold == breaker.failures >= failureThreshold => breaker.state = "OPEN"

\* An execute that finds the breaker OPEN less than resetTimeoutMs after the
\* time t rejects without invoking the operation and leaves the breaker.
RejectsDuringCooldown(t) ==
    \A c \in BreakerCallers :
        (execute(c) /\ breaker.state = "OPEN" /\ now - t < resetTimeoutMs)
        => (executions'[c].pc = "rejected" /\ breaker' = breaker)

\* An execute that finds the breaker OPEN more than resetTimeoutMs after the
\* time t makes it HALF_OPEN with no failure counted and invokes the operation.
ProbesAfterCooldown(t) ==
    \A c \in BreakerCallers :
        (execute(c) /\ breaker.state = "OPEN" /\ now - t > resetTimeoutMs)
        => /\ breaker'.state = "HALF_OPEN"
           /\ breaker'.failures = 0
           /\ executions'[c].pc = "running"

\* An operation that resolves while the breaker is HALF_OPEN closes it.
SuccessCloses ==
    \A c \in BreakerCallers :
        (operationResolves(c) /\ breaker.state = "HALF_OPEN")
        => breaker'.state = "CLOSED"

\* C34: the breaker is OPEN once its failure count has reached
\* failureThreshold; an execute that finds it OPEN rejects without invoking
\* the operation until resetTimeoutMs has elapsed since the last failure;
\* the first execute after that cooldown makes it HALF_OPEN with the failure
\* count reset and invokes the operation; a success in HALF_OPEN makes it
\* CLOSED.
C34_BreakerCycle ==
    /\ []OpenAtThreshold
    /\ [][RejectsDuringCooldown(failedAt)]_vars
    /\ [][ProbesAfterCooldown(failedAt)]_vars
    /\ [][SuccessCloses]_vars

\* The same cycle with the cooldown counted from the lastFailureTime the
\* breaker records: the entry of the call that failed last.
C34_CycleFromRecordedTime ==
    /\ []OpenAtThreshold
    /\ [][RejectsDuringCooldown(breaker.lastFailureTime)]_vars
    /\ [][ProbesAfterCooldown(breaker.lastFailureTime)]_vars
    /\ [][SuccessCloses]_vars

\* C37: an operation that rejects while the breaker is HALF_OPEN makes it
\* OPEN at once.
C37_FailedProbeReopens ==
    [][\A c \in BreakerCallers :
          (operationRejects(c) /\ breaker.state = "HALF_OPEN")
          => breaker'.state = "OPEN"]_vars

\* After a failed trial call the breaker is HALF_OPEN with one failure
\* counted, and the operation of the next call has been invoked.
C37_NextCallInvoked ==
    /\ breaker.state = "HALF_OPEN"
    /\ breaker.failures = 1
    /\ \E c \in BreakerCallers : executions[c].pc = "threw"
    /\ \E c \in BreakerCallers : executions[c].pc = "running"

(***************************************************************************)
(* Sweeps over a database whose calls may throw.                           *)
(***************************************************************************)

\* Every rung of the signal's ladder is marked hit.
AllRungsHit(id) == \A i \in DOMAIN signal_targets[id] : signal_targets[id][i]

\* C38: after a completed sweep no signal has status TP_HIT with an unhit
\* rung, and no signal with all rungs hit is in PARTIAL_TP, also when the
\* count query of checkAllTargetsHit failed during the sweep.
C38_TpHitIffAllRungsHit ==
    \A id \in DOMAIN signals :
        /\ signals[id].status = "TP_HIT" => AllRungsHit(id)
        /\ AllRungsHit(id) => signals[id].status # "PARTIAL_TP"

\* The signal's stored status is SL_HIT or TP_HIT.
Closed(id) == signals[id].status \in {"SL_HIT", "TP_HIT"}

\* The signal has a performance record in each of the four timeframes.
Recorded(id) ==
    /\ id \in DOMAIN performance
    /\ DOMAIN performance[id] = timeframes

\* C39: every signal whose stored status is SL_HIT or TP_HIT eventually has
\* a performance record in each of the four timeframes: when a sweep is
\* still to come after the one that closed it, the records get written.
C39_ClosedEventuallyRecorded ==
    \A id \in SignalIds :
        (Closed(id) /\ sweeps < MaxLaterSweeps) ~> Recorded(id)

\* A closed signal has its four records as soon as it is closed, unless
\* the insert of updatePerformanceMetrics failed in the sweep that closed it.
C39_RecordedUnlessWriteFailed ==
    [][\A id \in SignalIds :
          (~Closed(id) /\ Closed(id)' /\ storeFailed'[id] # "updatePerformanceMetrics")
          => Recorded(id)']_vars

(***************************************************************************)
(* Isolation of the units of work of a scheduled run.                      *)
(***************************************************************************)

\* Row r belongs to the unit of work the fault of the last cycle struck.
Struck(r, at) ==
    \/ at = Everywhere
    \/ /\ r.wallet_address = ActiveWallets[at[1]]
       /\ \/ at[2] = 0
          \/ r.pair = clearinghouse[ActiveWallets[at[1]]][at[2]].coin

\* An ingestion cycle stores and publishes every position a cycle without
\* failure would, but those of the unit of work its failure struck.
IsolatedCycle ==
    polls' = polls + 1
    => LET healthy == processWallets([positions |-> wallet_positions,
                                      events    |-> ingested_events,
                                      queue     |-> signalQueue],
                                     1, now', "none", Everywhere)
       IN  /\ \A r \in healthy.positions :
                 (ingestFault' = "none" \/ ~Struck(r, ingestFaultAt'))
                 => r \in wallet_positions'
           /\ \A k \in DOMAIN healthy.queue :
                 (ingestFault' = "none" \/ ~Struck(healthy.queue[k], ingestFaultAt'))
                 => \E j \in DOMAIN signalQueue' : signalQueue'[j] = healthy.queue[k]

\* A sweep evaluates every active signal whose pair has a price and whose
\* own writes did not fail, whatever failed for another pair or signal.
IsolatedSweep ==
    sweeps' = sweeps + 1
    => \A id \in getActiveSignals :
          LET p == marketPrice'[signals[id].pair]
              r == processSignalPriceCheck(id, p, "none")
          IN  (p # NoPrice /\ storeFailed'[id] = "none")
              => /\ signals'[id].status = r.status
                 /\ signal_targets'[id] = r.hits
                 /\ r.perf # << >> => Recorded(id)'
                 /\ \A k \in DOMAIN r.notes : BagIn(r.notes[k], notificationQueue')

C35_PositionWitness ==
    /\ polls = 1
    /\ ingestFault = "saveWalletPosition"
    /\ ingestFaultAt = <<1, 1>>
    /\ \E r \in wallet_positions :
          /\ r.wallet_address = ActiveWallets[2]
          /\ \E j \in DOMAIN signalQueue : signalQueue[j] = r
    /\ \A r \in wallet_positions : r.wallet_address # ActiveWallets[1]

\* A sweep in which a write threw for one signal and the provider failed
\* for one pair has closed another signal.
C35_SweepWitness ==
    /\ sweeps = 1
    /\ \E f \in DOMAIN storeFailed : storeFailed[f] = "updateSignalStatus"
    /\ \E id \in DOMAIN storeFailed :
          /\ storeFailed[id] = "none"
          /\ Closed(id)
          /\ Recorded(id)

(***************************************************************************)
(* Persistence before publication in the Ingestor.                         *)
(***************************************************************************)

\* The events an ingestion cycle has published.
Published == {k \in DOMAIN signalQueue' : k > Len(signalQueue)}

\* C40: whenever a position-open event is published to the signal queue,
\* the Position row it carries has been stored, and no event is published
\* for a position whose saveWalletPosition failed.
C40_StoredBeforePublished ==
    [][polls' = polls + 1
       => \A k \in Published :
             /\ signalQueue'[k] \in wallet_positions'
             /\ ingestFault' = "saveWalletPosition"
                => ~Struck(signalQueue'[k], ingestFaultAt')]_vars

\* A cycle in which saveWalletPosition threw for the first wallet's position
\* has published nothing for that wallet, and has published the stored row
\* of the second wallet.
C40_Witness ==
    /\ polls = 1
    /\ ingestFault = "saveWalletPosition"
    /\ ingestFaultAt = <<1, 1>>
    /\ Len(signalQueue) = 1
    /\ signalQueue[1].wallet_address = ActiveWallets[2]
    /\ signalQueue[1] \in wallet_positions

(***************************************************************************)
(* The config table under updateConfig.                                    *)
(***************************************************************************)

\* Every stored value satisfies the validation rule of its key.
StoredConfigValid ==
    \A key \in ConfigKeys : validateConfig(key, Number(configRows[key]))

\* C36: after any sequence of updateConfig calls every stored value
\* satisfies the validation rules, and an update carrying an invalid value
\* leaves the stored config unchanged.
C36_ConfigStaysValid ==
    /\ []StoredConfigValid
    /\ [][\A key \in ConfigKeys, value \in ConfigInputs :
            (updateConfig(key, value) /\ ~validateConfig(key, value))
            => configRows' = configRows]_vars

\* An update stores the text of its value, whatever the value.
C36_UpdateStoresAnyValue ==
    [][\A key \in ConfigKeys, value \in ConfigInputs :
          updateConfig(key, value) => configRows'[key] = String(value)]_vars
====
